---- MODULE Spec2Model ----
(***************************************************************************)
(* Model of the Gemini credential pool of QuestionGenerator.tsx:           *)
(* API_KEY_STATES / currentKeyIndex and the four functions that mutate     *)
(* them (setGeminiApiKeys, getNextGeminiKey, markKeyError, markKeySuccess),*)
(* and of callGeminiAPI, the retry loop that drives them.                  *)
(* Indices are 0-based as in the source; the pool is a TLA+ sequence, so   *)
(* the entry of index i is states[i + 1].                                  *)
(***************************************************************************)
EXTENDS Integers, Sequences, FiniteSets, TLC

(* ------------------------------ bounds -------------------------------- *)
\* largest pool the rotation is configured with
MaxKeys == 2
\* selections made between two configurations
MaxSelections == 3
\* cap on one credential's errorCount
MaxErrorCount == 3
\* callGeminiAPI calls made between two configurations
MaxInvokes == 2
\* length of the short responses handed to parseJsonRobust
MaxResponseLen == 3

(* ----------------------------- value sets ----------------------------- *)
\* a string is a sequence of characters; " " is the whitespace character used
Whitespace == {" "}
\* error messages handed to markKeyError
Messages == {"quota"}

\* T | null
None == <<>>
Some(v) == <<v>>

\* n distinct keys, the i-th being i letters long
PlainKey(i) == [j \in 1..i |-> "a"]
PlainKeyLists == {[i \in 1..n |-> PlainKey(i)] : n \in 0..MaxKeys}

\* lists with blank entries, padded keys, a key with an inner space, and
\* keys in another order than PlainKeyLists
PaddedKeyLists ==
  { << <<" ">> >>,
    << <<>>, <<" ", " ">> >>,
    << <<" ">>, <<"a", " ">> >>,
    << <<" ", "a", " ", "a", " ">> >>,
    << <<"a", "a">>, <<" ">>, <<" ", "a">> >> }

\* the lists handed to setGeminiApiKeys
KeyLists == PlainKeyLists \cup PaddedKeyLists

(* ------------------------------- state -------------------------------- *)
VARIABLES
  API_KEY_STATES,    \* sequence of ApiKeyState records
  currentKeyIndex,   \* rotation cursor, 0-based
  ret,               \* history: the last call, its arguments and its outcome
  selections,        \* history: selections returned since the last configuration
  failureReported,   \* history: markKeyError was called since the last configuration
  streak,            \* history: per credential, markKeyError calls since its last
                     \*          markKeySuccess, full reset or configuration
  invocation,        \* the callGeminiAPI call in flight: its locals and its position
  log,               \* history: what that call has done so far
  parse,             \* the parseJsonRobust call: its arguments, locals, outcome and,
                     \*          as history, the strategies it ran
  progress,          \* the component's progress state: isGenerating, isPaused
  runs,              \* the startGeneration calls in progress: per call its captured
                     \*          state, its locals, its position and, as history,
                     \*          whether a stop was requested and the units it began
  concurrent,        \* two callGeminiAPI calls made side by side: per call its
                     \*          locals and its position
  calculation        \* the last calculateTopicQuestions call of startGeneration: its
                     \*          arguments and result, and the progress counters set
                     \*          from it

vars == <<API_KEY_STATES, currentKeyIndex, ret, selections, failureReported, streak,
          invocation, log, parse, progress, runs, concurrent, calculation>>

(* ------------------------- String.prototype.trim ----------------------- *)
RECURSIVE trimStart(_)
trimStart(s) ==
  IF s = <<>> THEN s
  ELSE IF Head(s) \in Whitespace THEN trimStart(Tail(s)) ELSE s

RECURSIVE trimEnd(_)
trimEnd(s) ==
  IF s = <<>> THEN s
  ELSE IF s[Len(s)] \in Whitespace THEN trimEnd(SubSeq(s, 1, Len(s) - 1)) ELSE s

trim(s) == trimEnd(trimStart(s))

(* --------------------------- setGeminiApiKeys -------------------------- *)
validKeysOf(keys) == SelectSeq(keys, LAMBDA key : trim(key) # <<>>)

NewKeyState(key) ==
  [key |-> trim(key), usageCount |-> 0, errorCount |-> 0,
   lastError |-> None, lastUsedAt |-> None, isActive |-> TRUE]

\* mutant: the cursor is reset before the keys are validated
setGeminiApiKeysResetsCursorFirst(states, cursor, keys) ==
  LET validKeys == validKeysOf(keys)
  IN  IF Len(validKeys) = 0
      THEN [threw |-> TRUE, states |-> states, cursor |-> 0]
      ELSE [threw |-> FALSE,
            states |-> [i \in 1..Len(validKeys) |-> NewKeyState(validKeys[i])],
            cursor |-> 0]

\* mutant: the rotation cursor is not reset
setGeminiApiKeysKeepsCursor(states, cursor, keys) ==
  LET validKeys == validKeysOf(keys)
  IN  IF Len(validKeys) = 0
      THEN [threw |-> TRUE, states |-> states, cursor |-> cursor]
      ELSE [threw |-> FALSE,
            states |-> [i \in 1..Len(validKeys) |-> NewKeyState(validKeys[i])],
            cursor |-> IF cursor < Len(validKeys) THEN cursor ELSE 0]

\* the outcome of setGeminiApiKeys(keys) called with the pool (states, cursor)
setGeminiApiKeys(states, cursor, keys) ==
  LET validKeys == validKeysOf(keys)
  IN  IF Len(validKeys) = 0
      THEN [threw |-> TRUE, states |-> states, cursor |-> cursor]
      ELSE [threw |-> FALSE,
            states |-> [i \in 1..Len(validKeys) |-> NewKeyState(validKeys[i])],
            cursor |-> 0]

(* --------------------------- getNextGeminiKey -------------------------- *)
\* mutant: the scan does not look at isActive
RECURSIVE FindActiveAnyKey(_, _, _)
FindActiveAnyKey(states, selectedIndex, attempts) ==
  IF attempts >= Len(states) THEN -1
  ELSE selectedIndex

\* the while loop: the index of the first active entry among the
\* Len(states) entries examined cyclically from selectedIndex, or -1
RECURSIVE FindActive(_, _, _)
FindActive(states, selectedIndex, attempts) ==
  IF attempts >= Len(states) THEN -1
  ELSE IF states[selectedIndex + 1].isActive THEN selectedIndex
  ELSE FindActive(states, (selectedIndex + 1) % Len(states), attempts + 1)

\* mutant: the reset clears the recorded error as well
ResetAllClearsLastError(states) ==
  [i \in 1..Len(states) |->
     [states[i] EXCEPT !.isActive = TRUE, !.errorCount = 0, !.lastError = None]]

\* mutant: the reset reactivates the keys and keeps their error counts
ResetAllKeepsErrorCount(states) ==
  [i \in 1..Len(states) |-> [states[i] EXCEPT !.isActive = TRUE]]

\* the forEach of the "all keys inactive" branch
ResetAll(states) ==
  [i \in 1..Len(states) |-> [states[i] EXCEPT !.isActive = TRUE, !.errorCount = 0]]

\* the selected branch of the loop: usage tracking, cursor, return value
Selected(states, selectedIndex, now) ==
  [threw |-> FALSE,
   states |-> [states EXCEPT ![selectedIndex + 1].usageCount = @ + 1,
                             ![selectedIndex + 1].lastUsedAt = Some(now)],
   cursor |-> (selectedIndex + 1) % Len(states),
   index |-> selectedIndex,
   key |-> states[selectedIndex + 1].key,
   resets |-> 0]

\* the "no keys configured" throw
NoKeysConfigured(states, cursor) ==
  [threw |-> TRUE, states |-> states, cursor |-> cursor,
   index |-> -1, key |-> <<>>, resets |-> 0]

RECURSIVE getNextGeminiKey(_, _, _)

\* mutant: the cursor is left where it was
getNextGeminiKeyNoAdvance(states, cursor, now) ==
  IF Len(states) = 0 THEN NoKeysConfigured(states, cursor)
  ELSE LET selectedIndex == FindActive(states, cursor, 0)
       IN  IF selectedIndex # -1
           THEN [Selected(states, selectedIndex, now) EXCEPT !.cursor = cursor]
           ELSE LET r == getNextGeminiKey(ResetAll(states), cursor, now)
                IN  [r EXCEPT !.resets = @ + 1]

\* mutant: the cursor moves one past its old position, not past the selected key
getNextGeminiKeyCursorPlusOne(states, cursor, now) ==
  IF Len(states) = 0 THEN NoKeysConfigured(states, cursor)
  ELSE LET selectedIndex == FindActive(states, cursor, 0)
       IN  IF selectedIndex # -1
           THEN [Selected(states, selectedIndex, now)
                   EXCEPT !.cursor = (cursor + 1) % Len(states)]
           ELSE LET r == getNextGeminiKey(ResetAll(states), cursor, now)
                IN  [r EXCEPT !.resets = @ + 1]

\* mutant: an exhausted pool throws instead of being reset
getNextGeminiKeyThrowsWhenExhausted(states, cursor, now) ==
  IF Len(states) = 0 THEN NoKeysConfigured(states, cursor)
  ELSE LET selectedIndex == FindActive(states, cursor, 0)
       IN  IF selectedIndex # -1
           THEN Selected(states, selectedIndex, now)
           ELSE NoKeysConfigured(states, cursor)

\* mutant: usageCount is raised for every key the scan examines
getNextGeminiKeyCountsExamined(states, cursor, now) ==
  IF Len(states) = 0 THEN NoKeysConfigured(states, cursor)
  ELSE LET selectedIndex == FindActive(states, cursor, 0)
           examined(i) == (i - 1 - cursor) % Len(states) < (selectedIndex - cursor) % Len(states)
       IN  IF selectedIndex # -1
           THEN LET r == Selected(states, selectedIndex, now)
                IN  [r EXCEPT !.states =
                       [i \in 1..Len(states) |->
                          IF examined(i) THEN [r.states[i] EXCEPT !.usageCount = @ + 1]
                          ELSE r.states[i]]]
           ELSE LET r == getNextGeminiKey(ResetAll(states), cursor, now)
                IN  [r EXCEPT !.resets = @ + 1]

\* the outcome of getNextGeminiKey() when Date.now() returns now;
\* resets counts the executions of the reset branch
getNextGeminiKey(states, cursor, now) ==
  IF Len(states) = 0 THEN NoKeysConfigured(states, cursor)
  ELSE LET selectedIndex == FindActive(states, cursor, 0)
       IN  IF selectedIndex # -1
           THEN Selected(states, selectedIndex, now)
           ELSE LET r == getNextGeminiKey(ResetAll(states), cursor, now)
                IN  [r EXCEPT !.resets = @ + 1]

(* ------------------------------ markKeyError --------------------------- *)
\* mutant: the key is deactivated one error late
markKeyErrorLateThreshold(states, keyIndex, errorMessage) ==
  IF keyIndex >= 0 /\ keyIndex < Len(states)
  THEN LET errorCount == states[keyIndex + 1].errorCount + 1
       IN  [states EXCEPT ![keyIndex + 1] =
              [@ EXCEPT !.errorCount = errorCount,
                        !.lastError = Some(errorMessage),
                        !.isActive = IF errorCount > 3 THEN FALSE ELSE @]]
  ELSE states

markKeyError(states, keyIndex, errorMessage) ==
  IF keyIndex >= 0 /\ keyIndex < Len(states)
  THEN LET errorCount == states[keyIndex + 1].errorCount + 1
       IN  [states EXCEPT ![keyIndex + 1] =
              [@ EXCEPT !.errorCount = errorCount,
                        !.lastError = Some(errorMessage),
                        !.isActive = IF errorCount >= 3 THEN FALSE ELSE @]]
  ELSE states

(* ----------------------------- markKeySuccess -------------------------- *)
\* mutant: lastError is cleared and the error count is kept
markKeySuccessKeepsCount(states, keyIndex) ==
  IF keyIndex >= 0 /\ keyIndex < Len(states)
  THEN [states EXCEPT ![keyIndex + 1] = [@ EXCEPT !.lastError = None]]
  ELSE states

markKeySuccess(states, keyIndex) ==
  IF keyIndex >= 0 /\ keyIndex < Len(states)
  THEN [states EXCEPT ![keyIndex + 1] = [@ EXCEPT !.errorCount = 0, !.lastError = None]]
  ELSE states

(* ------------------------------- history ------------------------------- *)
\* Date.prototype.toLocaleString: the display form of a timestamp
toLocaleString(time) == <<"locale", time>>

\* mutant: the display index is the pool position
getApiKeyStatsZeroBased(states) ==
  [i \in 1..Len(states) |->
     [index |-> i - 1,
      usageCount |-> states[i].usageCount,
      errorCount |-> states[i].errorCount,
      lastError |-> states[i].lastError,
      isActive |-> states[i].isActive,
      lastUsedAt |-> IF states[i].lastUsedAt # None
                     THEN toLocaleString(states[i].lastUsedAt) ELSE "Never"]]

\* getApiKeyStats: position i of the sequence is the 0-based index i - 1
getApiKeyStats(states) ==
  [i \in 1..Len(states) |->
     [index |-> (i - 1) + 1,
      usageCount |-> states[i].usageCount,
      errorCount |-> states[i].errorCount,
      lastError |-> states[i].lastError,
      isActive |-> states[i].isActive,
      lastUsedAt |-> IF states[i].lastUsedAt # None
                     THEN toLocaleString(states[i].lastUsedAt) ELSE "Never"]]

NoCall ==
  [op |-> "none", threw |-> FALSE, index |-> -1, key |-> <<>>, resets |-> 0,
   cursorBefore |-> 0, keys |-> <<>>]

InRange(keyIndex) == keyIndex >= 0 /\ keyIndex < Len(API_KEY_STATES)

\* the reading of Date.now(): timestamps are opaque, one value stands for all
Now == "now"

(* ----------------------------- callGeminiAPI ------------------------- *)
\* what one attempt's outbound call can come to
Outcomes ==
  { "fetch-rejects",          \* fetch throws: network or transport failure
    "http-403-unregistered",  \* !response.ok, 403, message has 'unregistered callers'
    "http-400-key-invalid",   \* !response.ok, 400, message has 'API key not valid'
    "http-429",               \* !response.ok, rate limit
    "http-5xx",               \* !response.ok, server error
    "http-other",             \* !response.ok, any other status or message
    "http-bad-message",       \* !response.ok, 400 or 403, error.message no string:
                              \*   errorMessage.includes throws after markKeyError
    "body-not-json",          \* response.ok, response.json() throws
    "blocked",                \* response.ok, no candidates, promptFeedback.blockReason
    "no-candidates",          \* response.ok, no candidates[0].content
    "no-text",                \* response.ok, no parts[0].text
    "ok" }                    \* response.ok, text present

\* the branch of the loop body an outcome takes
BranchOf(outcome) ==
  CASE outcome = "ok" -> "return"
    [] outcome = "http-400-key-invalid" -> "continue"
    [] outcome \in {"http-403-unregistered", "http-429", "http-5xx", "http-other",
                    "no-candidates", "no-text"} -> "wait-continue"
    [] outcome \in {"fetch-rejects", "body-not-json", "blocked"} -> "catch"
    [] outcome = "http-bad-message" -> "mark-catch"

\* the failures the loop answers by waiting and trying the next key
TransientOutcomes ==
  {"fetch-rejects", "http-403-unregistered", "http-429", "http-5xx", "http-other",
   "body-not-json", "blocked", "no-candidates", "no-text"}

\* the message handed to markKeyError
ErrorMessageOf(outcome) == CHOOSE m \in Messages : TRUE

\* the prompts handed to callGeminiAPI
Prompts == { <<>>, <<" ">>, <<"p">> }

\* mutant: only the empty prompt is refused
IsBlankPromptEmptyOnly(prompt) == prompt = <<>>

\* !prompt || prompt.trim() === ''
IsBlankPrompt(prompt) == prompt = <<>> \/ trim(prompt) = <<>>

\* mutant: one attempt more than three per credential
maxTotalRetriesOfPlusOne(states) == Len(states) * 3 + 1

\* API_KEY_STATES.length * 3
maxTotalRetriesOf(states) == Len(states) * 3

NoInvocation ==
  [pc |-> "idle", prompt |-> <<>>, maxTotalRetries |-> 0, attemptCount |-> 0,
   keyIndex |-> -1, result |-> "none", reported |-> 0]

\* history of one call: invokes counts the calls since the last configuration,
\* poolSizeAtStart is API_KEY_STATES.length when the call began,
\* freshAtStart says the pool was untouched then and usageAtStart is each
\* credential's usageCount then, selected and
\* calls count its selections and outbound requests, failures the attempts
\* that failed, resets its full resets,
\* previousKeyIndex is the key of the attempt before the current one; branch,
\* marks and waited describe how the last response was handled (the branch
\* taken, the markKeyError calls made, whether the 10 s wait followed), and
\* onlyTransient says every failure so far was a transient one
NoLog ==
  [invokes |-> 0, poolSizeAtStart |-> 0, freshAtStart |-> FALSE,
   usageAtStart |-> <<>>, selected |-> 0, calls |-> 0,
   failures |-> 0, resets |-> 0,
   previousKeyIndex |-> -1, branch |-> "none", marks |-> 0, waited |-> FALSE,
   onlyTransient |-> TRUE]

\* mutant: the loop body runs once before the budget is tested
BeginAttemptSelectsFirst(w) ==
  IF w.inv.attemptCount < w.inv.maxTotalRetries \/ w.inv.attemptCount = 0
  THEN LET r == getNextGeminiKey(w.states, w.cursor, Now)
       IN  IF r.threw
           THEN [w EXCEPT !.inv.attemptCount = @ + 1,
                          !.inv.pc = "done", !.inv.result = "no-keys"]
           ELSE [w EXCEPT !.states = r.states,
                          !.cursor = r.cursor,
                          !.inv.attemptCount = @ + 1,
                          !.inv.keyIndex = r.index,
                          !.inv.pc = "fetch",
                          !.log.selected = @ + 1,
                          !.log.calls = @ + 1,
                          !.log.resets = @ + r.resets,
                          !.log.previousKeyIndex = w.inv.keyIndex]
  ELSE [w EXCEPT !.inv.pc = "done",
                 !.inv.result = "exhausted",
                 !.inv.reported = w.inv.attemptCount]

\* the loop from its test to the fetch of the next attempt, or to the final
\* throw: w is the pool, the locals of the call and its history
BeginAttempt(w) ==
  IF w.inv.attemptCount < w.inv.maxTotalRetries
  THEN LET r == getNextGeminiKey(w.states, w.cursor, Now)
       IN  IF r.threw
           THEN [w EXCEPT !.inv.attemptCount = @ + 1,
                          !.inv.pc = "done", !.inv.result = "no-keys"]
           ELSE [w EXCEPT !.states = r.states,
                          !.cursor = r.cursor,
                          !.inv.attemptCount = @ + 1,
                          !.inv.keyIndex = r.index,
                          !.inv.pc = "fetch",
                          !.log.selected = @ + 1,
                          !.log.calls = @ + 1,
                          !.log.resets = @ + r.resets,
                          !.log.previousKeyIndex = w.inv.keyIndex]
  ELSE [w EXCEPT !.inv.pc = "done",
                 !.inv.result = "exhausted",
                 !.inv.reported = w.inv.attemptCount]

\* await new Promise(resolve => setTimeout(resolve, 10000))
Backoff(w) == [w EXCEPT !.inv.pc = "wait", !.log.waited = TRUE]

\* mutant: an invalid key is followed by the wait as well
ContinueImmediatelyWaits(w) == Backoff(w)

\* continue; // Try next key immediately
ContinueImmediately(w) == BeginAttempt(w)

\* mutant: the catch block waits on the last attempt too
CatchAlwaysWaits(w, errorMessage) ==
  Backoff([w EXCEPT !.states = markKeyError(w.states, w.inv.keyIndex, errorMessage),
                    !.log.marks = @ + 1])

\* the catch block: one markKeyError, and the wait unless the budget is spent
Catch(w, errorMessage) ==
  LET marked == [w EXCEPT !.states = markKeyError(w.states, w.inv.keyIndex, errorMessage),
                          !.log.marks = @ + 1]
  IN  IF marked.inv.attemptCount < marked.inv.maxTotalRetries
      THEN Backoff(marked)
      ELSE BeginAttempt(marked)

\* mutant: a failed request is sent again without a new attempt
HandleResponseRetriesInPlace(w, outcome) ==
  LET branch == BranchOf(outcome)
      message == ErrorMessageOf(outcome)
      seen == [w EXCEPT !.log.branch = branch,
                        !.log.failures = IF outcome = "ok" THEN @ ELSE @ + 1,
                        !.log.marks = 0,
                        !.log.waited = FALSE,
                        !.log.onlyTransient = @ /\ outcome \in TransientOutcomes \cup {"ok"}]
      marked == [seen EXCEPT !.states = markKeyError(w.states, w.inv.keyIndex, message),
                             !.log.marks = @ + 1]
      again == [w EXCEPT !.log.branch = branch]
  IN  CASE branch = "return" ->
             [seen EXCEPT !.states = markKeySuccess(w.states, w.inv.keyIndex),
                          !.inv.pc = "done", !.inv.result = "text"]
        [] branch = "continue" -> ContinueImmediately(marked)
        [] branch = "wait-continue" -> again
        [] branch = "catch" -> again
        [] branch = "mark-catch" -> Catch(marked, message)

\* the loop body from the settled fetch to its next await, return or throw
HandleResponse(w, outcome) ==
  LET branch == BranchOf(outcome)
      message == ErrorMessageOf(outcome)
      seen == [w EXCEPT !.log.branch = branch,
                        !.log.failures = IF outcome = "ok" THEN @ ELSE @ + 1,
                        !.log.marks = 0,
                        !.log.waited = FALSE,
                        !.log.onlyTransient = @ /\ outcome \in TransientOutcomes \cup {"ok"}]
      marked == [seen EXCEPT !.states = markKeyError(w.states, w.inv.keyIndex, message),
                             !.log.marks = @ + 1]
  IN  CASE branch = "return" ->
             [seen EXCEPT !.states = markKeySuccess(w.states, w.inv.keyIndex),
                          !.inv.pc = "done", !.inv.result = "text"]
        [] branch = "continue" -> ContinueImmediately(marked)
        [] branch = "wait-continue" -> Backoff(marked)
        [] branch = "catch" -> Catch(seen, message)
        [] branch = "mark-catch" -> Catch(marked, message)

\* every credential as setGeminiApiKeys leaves it
Untouched(states) ==
  \A i \in 1..Len(states) : states[i] = NewKeyState(states[i].key)

\* callGeminiAPI from its entry to the first fetch, or to its throw
StartCall(w, prompt) ==
  LET entered == [w EXCEPT !.inv = [NoInvocation EXCEPT
                                      !.prompt = prompt,
                                      !.maxTotalRetries = maxTotalRetriesOf(w.states)],
                           !.log = [NoLog EXCEPT !.invokes = w.log.invokes + 1,
                                                 !.poolSizeAtStart = Len(w.states),
                                                 !.freshAtStart = Untouched(w.states),
                                                 !.usageAtStart =
                                                   [i \in 1..Len(w.states) |->
                                                      w.states[i].usageCount]]]
  IN  IF IsBlankPrompt(prompt)
      THEN [entered EXCEPT !.inv.pc = "done", !.inv.result = "invalid-input"]
      ELSE BeginAttempt(entered)

(* ------------------------------ characters ----------------------------- *)
\* a string value is a sequence of characters, each named by a TLA+ string
Quote == "quot"                \* U+0022
Backslash == "bsol"            \* U+005C
LF == "LF"                   \* U+000A, a literal newline
LDQuo == "ldquo"             \* U+201C
RDQuo == "rdquo"             \* U+201D
Backtick == "grave"           \* U+0060
\* \s of the regular expressions, and the whitespace JSON.parse skips
WhitespaceChars == {" ", LF}
\* [\x00-\x1F]
ControlChars == {LF}
Digits == {"1"}
\* the characters that may follow a backslash inside a JSON string
EscapeLetters == {Quote, Backslash, "b", "n"}

(* ------------------------------ JSON.parse ------------------------------ *)
NoValue == [tag |-> "none", key |-> <<>>, text |-> <<>>, kids |-> <<>>]
StringValue(chars) == [NoValue EXCEPT !.tag = "string", !.text = chars]
NumberValue(digits) == [NoValue EXCEPT !.tag = "number", !.text = digits]
ArrayValue(elements) == [NoValue EXCEPT !.tag = "array", !.kids = elements]
ObjectValue(members) == [NoValue EXCEPT !.tag = "object", !.kids = members]

SyntaxError(pos) == [ok |-> FALSE, pos |-> pos, value |-> NoValue]
Parsed(pos, value) == [ok |-> TRUE, pos |-> pos, value |-> value]

RECURSIVE SkipWhitespace(_, _)
SkipWhitespace(s, i) ==
  IF i <= Len(s) /\ s[i] \in WhitespaceChars THEN SkipWhitespace(s, i + 1) ELSE i

\* the characters of a string literal from position i, the opening quote
\* consumed, up to its closing quote; decoded holds the value so far
RECURSIVE ParseStringBody(_, _, _)
ParseStringBody(s, i, decoded) ==
  IF i > Len(s) THEN SyntaxError(i)
  ELSE IF s[i] = Quote THEN Parsed(i + 1, StringValue(decoded))
  ELSE IF s[i] \in ControlChars THEN SyntaxError(i)
  ELSE IF s[i] = Backslash
       THEN IF i + 1 <= Len(s) /\ s[i + 1] \in EscapeLetters
            THEN ParseStringBody(s, i + 2,
                   Append(decoded,
                     CASE s[i + 1] = "n" -> LF
                       [] s[i + 1] = "b" -> "BS"
                       [] OTHER -> s[i + 1]))
            ELSE SyntaxError(i + 1)
  ELSE ParseStringBody(s, i + 1, Append(decoded, s[i]))

RECURSIVE ParseDigits(_, _, _)
ParseDigits(s, i, digits) ==
  IF i <= Len(s) /\ s[i] \in Digits
  THEN ParseDigits(s, i + 1, Append(digits, s[i]))
  ELSE Parsed(i, NumberValue(digits))

\* an object member replaces an earlier member of the same key, in its place
RECURSIVE SetMember(_, _, _)
SetMember(members, key, value) ==
  IF members = <<>> THEN <<[value EXCEPT !.key = key]>>
  ELSE IF Head(members).key = key
       THEN <<[value EXCEPT !.key = key]>> \o Tail(members)
       ELSE <<Head(members)>> \o SetMember(Tail(members), key, value)

RECURSIVE ParseValue(_, _)
RECURSIVE ParseElements(_, _, _)
RECURSIVE ParseMembers(_, _, _)

\* a value at position i, leading whitespace skipped by the caller
ParseValue(s, i) ==
  IF i > Len(s) THEN SyntaxError(i)
  ELSE IF s[i] = Quote THEN ParseStringBody(s, i + 1, <<>>)
  ELSE IF s[i] \in Digits THEN ParseDigits(s, i, <<>>)
  ELSE IF s[i] = "["
       THEN LET j == SkipWhitespace(s, i + 1)
            IN  IF j <= Len(s) /\ s[j] = "]"
                THEN Parsed(j + 1, ArrayValue(<<>>))
                ELSE ParseElements(s, j, <<>>)
  ELSE IF s[i] = "{"
       THEN LET j == SkipWhitespace(s, i + 1)
            IN  IF j <= Len(s) /\ s[j] = "}"
                THEN Parsed(j + 1, ObjectValue(<<>>))
                ELSE ParseMembers(s, j, <<>>)
  ELSE SyntaxError(i)

\* the elements of an array from position i, up to its closing bracket
ParseElements(s, i, elements) ==
  LET element == ParseValue(s, i)
      j == SkipWhitespace(s, element.pos)
  IN  IF ~element.ok THEN element
      ELSE IF j > Len(s) THEN SyntaxError(j)
      ELSE IF s[j] = "]" THEN Parsed(j + 1, ArrayValue(Append(elements, element.value)))
      ELSE IF s[j] = ","
           THEN ParseElements(s, SkipWhitespace(s, j + 1), Append(elements, element.value))
      ELSE SyntaxError(j)

\* the members of an object from position i, up to its closing brace
ParseMembers(s, i, members) ==
  IF i > Len(s) \/ s[i] # Quote THEN SyntaxError(i)
  ELSE LET key == ParseStringBody(s, i + 1, <<>>)
           colon == SkipWhitespace(s, key.pos)
       IN  IF ~key.ok THEN key
           ELSE IF colon > Len(s) \/ s[colon] # ":" THEN SyntaxError(colon)
           ELSE LET member == ParseValue(s, SkipWhitespace(s, colon + 1))
                    j == SkipWhitespace(s, member.pos)
                    added == SetMember(members, key.value.text, member.value)
                IN  IF ~member.ok THEN member
                    ELSE IF j > Len(s) THEN SyntaxError(j)
                    ELSE IF s[j] = "}" THEN Parsed(j + 1, ObjectValue(added))
                    ELSE IF s[j] = ","
                         THEN ParseMembers(s, SkipWhitespace(s, j + 1), added)
                    ELSE SyntaxError(j)

\* JSON.parse(text): the value, or a SyntaxError
JSONparse(s) ==
  LET r == ParseValue(s, SkipWhitespace(s, 1))
  IN  IF r.ok /\ SkipWhitespace(s, r.pos) = Len(s) + 1
      THEN [ok |-> TRUE, value |-> r.value]
      ELSE [ok |-> FALSE, value |-> NoValue]

(* --------------------------- String.prototype --------------------------- *)
\* s.indexOf(c) and s.lastIndexOf(c) for one character c, positions from 0
RECURSIVE IndexFrom(_, _, _)
IndexFrom(s, c, i) ==
  IF i > Len(s) THEN -1
  ELSE IF s[i] = c THEN i - 1
  ELSE IndexFrom(s, c, i + 1)

indexOf(s, c) == IndexFrom(s, c, 1)

RECURSIVE LastIndexFrom(_, _, _)
LastIndexFrom(s, c, i) ==
  IF i < 1 THEN -1
  ELSE IF s[i] = c THEN i - 1
  ELSE LastIndexFrom(s, c, i - 1)

lastIndexOf(s, c) == LastIndexFrom(s, c, Len(s))

Min(a, b) == IF a <= b THEN a ELSE b
Max(a, b) == IF a >= b THEN a ELSE b
Clamp(n, len) == Max(0, Min(n, len))

\* s.substring(start, end): the arguments are clamped to 0..length and
\* swapped when start > end
substring(s, start, end) ==
  LET a == Min(Clamp(start, Len(s)), Clamp(end, Len(s)))
      b == Max(Clamp(start, Len(s)), Clamp(end, Len(s)))
  IN  SubSeq(s, a + 1, b)

\* pattern occurs in s at position i (from 1)
OccursAt(s, i, pattern) ==
  /\ i + Len(pattern) - 1 <= Len(s)
  /\ SubSeq(s, i, i + Len(pattern) - 1) = pattern

\* s.includes(pattern)
includes(s, pattern) == \E i \in 1..(Len(s) + 1) : OccursAt(s, i, pattern)

\* s.replace(/pattern/g, replacement) for a literal, non-empty pattern
RECURSIVE ReplaceFrom(_, _, _, _)
ReplaceFrom(s, i, pattern, replacement) ==
  IF i > Len(s) THEN <<>>
  ELSE IF OccursAt(s, i, pattern)
       THEN replacement \o ReplaceFrom(s, i + Len(pattern), pattern, replacement)
       ELSE <<s[i]>> \o ReplaceFrom(s, i + 1, pattern, replacement)

replaceAll(s, pattern, replacement) == ReplaceFrom(s, 1, pattern, replacement)

\* s.replace(/[class]/g, c) for a set of characters
replaceChars(s, class, c) ==
  [i \in 1..Len(s) |-> IF s[i] \in class THEN c ELSE s[i]]

\* s.replace(/\s+/g, ' ')
RECURSIVE CollapseFrom(_, _)
CollapseFrom(s, i) ==
  IF i > Len(s) THEN <<>>
  ELSE IF s[i] \in WhitespaceChars
       THEN <<" ">> \o CollapseFrom(s, SkipWhitespace(s, i))
       ELSE <<s[i]>> \o CollapseFrom(s, i + 1)

collapseWhitespace(s) == CollapseFrom(s, 1)

\* s.trim()
RECURSIVE trimTextEnd(_)
trimTextEnd(s) ==
  IF s # <<>> /\ s[Len(s)] \in WhitespaceChars
  THEN trimTextEnd(SubSeq(s, 1, Len(s) - 1))
  ELSE s

trimText(s) == trimTextEnd(SubSeq(s, SkipWhitespace(s, 1), Len(s)))

(* --------------------------- sanitizeJsonString -------------------------- *)
Fence == <<Backtick, Backtick, Backtick>>
Json == <<"j", "s", "o", "n">>

\* .replace(/```json/gi, '') ... .replace(/```/g, ''): the fence with
\* 'javascript' needs letters the alphabet lacks
removeFences(s) ==
  replaceAll(replaceAll(replaceAll(s, Fence \o Json, <<>>),
                        Fence \o <<"j", "s">>, <<>>),
             Fence, <<>>)

\* .replace(/^\s*json\s*/gi, '')
removeLeadingJson(s) ==
  LET i == SkipWhitespace(s, 1)
  IN  IF OccursAt(s, i, Json)
      THEN SubSeq(s, SkipWhitespace(s, i + Len(Json)), Len(s))
      ELSE s

\* the escape sequences set aside, in the order the code replaces them; the
\* sequences with r, t and f need letters the alphabet lacks
EscapeProtector(c) == "___ESCAPE___" \o c

protectEscapes(s) ==
  replaceAll(replaceAll(replaceAll(replaceAll(s,
    <<Backslash, "n">>, <<EscapeProtector("n")>>),
    <<Backslash, "b">>, <<EscapeProtector("b")>>),
    <<Backslash, Quote>>, <<EscapeProtector("quote")>>),
    <<Backslash, Backslash>>, <<EscapeProtector("backslash")>>)

restoreEscapes(s) ==
  replaceAll(replaceAll(replaceAll(replaceAll(s,
    <<EscapeProtector("n")>>, <<Backslash, "n">>),
    <<EscapeProtector("b")>>, <<Backslash, "b">>),
    <<EscapeProtector("quote")>>, <<Backslash, Quote>>),
    <<EscapeProtector("backslash")>>, <<Backslash, Backslash>>)

\* mutant: only the opening smart quote is replaced
fixSmartQuotesLeftOnly(s) == replaceChars(s, {LDQuo}, Quote)

\* .replace(/[""]/g, '"')
fixSmartQuotes(s) == replaceChars(s, {LDQuo, RDQuo}, Quote)

\* first position from i that holds no whitespace is a closing bracket
ClosesAfter(s, i) ==
  LET j == SkipWhitespace(s, i)
  IN  j <= Len(s) /\ s[j] \in {"}", "]"}

\* .replace(/,(\s*[}\]])/g, '$1')
RECURSIVE TrailingCommasFrom(_, _)
TrailingCommasFrom(s, i) ==
  IF i > Len(s) THEN <<>>
  ELSE IF s[i] = "," /\ ClosesAfter(s, i + 1)
       THEN TrailingCommasFrom(s, i + 1)
       ELSE <<s[i]>> \o TrailingCommasFrom(s, i + 1)

removeTrailingCommas(s) == TrailingCommasFrom(s, 1)

\* [^"\\\/bfnrtu]
NotEscapable(c) == c \notin {Quote, Backslash, "b", "n"}

\* .replace(/\\([^"\\\/bfnrtu])/g, '$1')
RECURSIVE InvalidEscapesFrom(_, _)
InvalidEscapesFrom(s, i) ==
  IF i > Len(s) THEN <<>>
  ELSE IF s[i] = Backslash /\ i + 1 <= Len(s) /\ NotEscapable(s[i + 1])
       THEN <<s[i + 1]>> \o InvalidEscapesFrom(s, i + 2)
       ELSE <<s[i]>> \o InvalidEscapesFrom(s, i + 1)

removeInvalidEscapes(s) == InvalidEscapesFrom(s, 1)

\* number of octal digits from position i, at most 3
RECURSIVE OctalRun(_, _, _)
OctalRun(s, i, n) ==
  IF n < 3 /\ i <= Len(s) /\ s[i] \in Digits THEN OctalRun(s, i + 1, n + 1) ELSE n

\* .replace(/\\[0-7]{1,3}/g, '')
RECURSIVE OctalEscapesFrom(_, _)
OctalEscapesFrom(s, i) ==
  IF i > Len(s) THEN <<>>
  ELSE IF s[i] = Backslash /\ OctalRun(s, i + 1, 0) > 0
       THEN OctalEscapesFrom(s, i + 1 + OctalRun(s, i + 1, 0))
       ELSE <<s[i]>> \o OctalEscapesFrom(s, i + 1)

removeOctalEscapes(s) == OctalEscapesFrom(s, 1)

\* mutant: newlines are removed, not replaced by a space
sanitizeJsonStringDropsNewlines(jsonString) ==
  LET step1 == trimText(removeLeadingJson(removeFences(jsonString)))
      step2 == restoreEscapes(
                 SelectSeq(protectEscapes(step1), LAMBDA c : c \notin ControlChars))
      step3 == fixSmartQuotes(step2)
      step5 == removeTrailingCommas(step3)
      step6 == collapseWhitespace(step5)
      step7 == removeInvalidEscapes(step6)
      step8 == removeOctalEscapes(step7)
  IN  step8

\* steps 1 to 8; steps 4 (\u escapes) and the \x part of step 8 need letters
\* the alphabet lacks
sanitizeJsonString(jsonString) ==
  LET step1 == trimText(removeLeadingJson(removeFences(jsonString)))
      step2 == restoreEscapes(replaceChars(protectEscapes(step1), ControlChars, " "))
      step3 == fixSmartQuotes(step2)
      step5 == removeTrailingCommas(step3)
      step6 == collapseWhitespace(step5)
      step7 == removeInvalidEscapes(step6)
      step8 == removeOctalEscapes(step7)
  IN  step8

(* ----------------------------- parseJsonRobust --------------------------- *)
ExpectedTypes == {"array", "object"}
openChar(expectedType) == IF expectedType = "array" THEN "[" ELSE "{"
closeChar(expectedType) == IF expectedType = "array" THEN "]" ELSE "}"

Succeeded(value) == [ok |-> TRUE, value |-> value, error |-> "none"]
Failed(message) == [ok |-> FALSE, value |-> NoValue, error |-> message]

\* return JSON.parse(text), the SyntaxError thrown on
ParseOrThrow(text) ==
  LET r == JSONparse(text)
  IN  IF r.ok THEN Succeeded(r.value) ELSE Failed("SyntaxError")

\* s.match(/\[[\s\S]*\]/) or s.match(/\{[\s\S]*\}/): from the first opening
\* bracket to the last closing bracket after it; <<>> stands for no match,
\* a match being never empty
greedyMatch(s, expectedType) ==
  LET firstIdx == indexOf(s, openChar(expectedType))
      lastIdx == lastIndexOf(s, closeChar(expectedType))
  IN  IF firstIdx = -1 \/ lastIdx < firstIdx
      THEN <<>>
      ELSE substring(s, firstIdx, lastIdx + 1)

\* Strategy 1: direct extraction and sanitization
Strategy1(response, expectedType) ==
  LET match == greedyMatch(response, expectedType)
  IN  IF match = <<>> THEN Failed("No JSON found in response")
      ELSE ParseOrThrow(sanitizeJsonString(match))

\* Strategy 2: remove everything before the first bracket
Strategy2(response, expectedType) ==
  LET startIdx == indexOf(response, openChar(expectedType))
  IN  IF startIdx = -1 THEN Failed("No opening bracket found")
      ELSE ParseOrThrow(sanitizeJsonString(substring(response, startIdx, Len(response))))

\* Strategy 3: extract between the first and the last matching brackets
Strategy3(response, expectedType) ==
  LET firstIdx == indexOf(response, openChar(expectedType))
      lastIdx == lastIndexOf(response, closeChar(expectedType))
  IN  IF firstIdx = -1 \/ lastIdx = -1 \/ lastIdx <= firstIdx
      THEN Failed("Invalid bracket positions")
      ELSE ParseOrThrow(sanitizeJsonString(substring(response, firstIdx, lastIdx + 1)))

\* .replace(/^json\\s*/gi, ''): 'json', a backslash and any number of s
RECURSIVE SkipLetterS(_, _)
SkipLetterS(s, i) ==
  IF i <= Len(s) /\ s[i] = "s" THEN SkipLetterS(s, i + 1) ELSE i

removeLeadingJsonBackslash(s) ==
  IF OccursAt(s, 1, Json \o <<Backslash>>)
  THEN SubSeq(s, SkipLetterS(s, Len(Json) + 2), Len(s))
  ELSE s

\* escapeMap of strategy 4, in the order of its entries
protectEscapeMap(s) ==
  replaceAll(replaceAll(replaceAll(replaceAll(s,
    <<Backslash, "n">>, <<"___NEWLINE___">>),
    <<Backslash, Quote>>, <<"___QUOTE___">>),
    <<Backslash, Backslash>>, <<"___BACKSLASH___">>),
    <<Backslash, "b">>, <<"___BACKSPACE___">>)

restoreEscapeMap(s) ==
  replaceAll(replaceAll(replaceAll(replaceAll(s,
    <<"___NEWLINE___">>, <<Backslash, "n">>),
    <<"___QUOTE___">>, <<Backslash, Quote>>),
    <<"___BACKSLASH___">>, <<Backslash, Backslash>>),
    <<"___BACKSPACE___">>, <<Backslash, "b">>)

\* Strategy 4: ultra-aggressive cleaning with markdown removal
Strategy4(response, expectedType) ==
  LET unfenced == trimText(removeLeadingJsonBackslash(removeFences(response)))
      uncontrolled == restoreEscapeMap(replaceChars(protectEscapeMap(unfenced),
                                                     ControlChars, " "))
      cleaned == collapseWhitespace(fixSmartQuotes(uncontrolled))
      match == greedyMatch(cleaned, expectedType)
  IN  IF match = <<>> THEN Failed("No JSON after aggressive cleaning")
      ELSE ParseOrThrow(match)

\* the protected sequences of strategy 5, in the order it replaces them; the
\* numbered placeholders are told apart by the sequence they stand for
protectNumbered(s) ==
  replaceAll(replaceAll(replaceAll(replaceAll(s,
    <<Backslash, Quote>>, <<"___PROTECTED_quote___">>),
    <<Backslash, Backslash>>, <<"___PROTECTED_backslash___">>),
    <<Backslash, "n">>, <<"___PROTECTED_n___">>),
    <<Backslash, "b">>, <<"___PROTECTED_b___">>)

restoreNumbered(s) ==
  replaceAll(replaceAll(replaceAll(replaceAll(s,
    <<"___PROTECTED_quote___">>, <<Backslash, Quote>>),
    <<"___PROTECTED_backslash___">>, <<Backslash, Backslash>>),
    <<"___PROTECTED_n___">>, <<Backslash, "n">>),
    <<"___PROTECTED_b___">>, <<Backslash, "b">>)

\* .replace(/,\s*([}\]])/g, '$1')
RECURSIVE CommaGapsFrom(_, _)
CommaGapsFrom(s, i) ==
  IF i > Len(s) THEN <<>>
  ELSE IF s[i] = "," /\ ClosesAfter(s, i + 1)
       THEN CommaGapsFrom(s, SkipWhitespace(s, i + 1))
       ELSE <<s[i]>> \o CommaGapsFrom(s, i + 1)

removeCommaGaps(s) == CommaGapsFrom(s, 1)

\* .replace(/l\s+r/g, 'lr') for two characters l and r
RECURSIVE GapsBetweenFrom(_, _, _, _)
GapsBetweenFrom(s, i, l, r) ==
  IF i > Len(s) THEN <<>>
  ELSE LET j == SkipWhitespace(s, i + 1)
       IN  IF s[i] = l /\ j > i + 1 /\ j <= Len(s) /\ s[j] = r
           THEN <<l, r>> \o GapsBetweenFrom(s, j + 1, l, r)
           ELSE <<s[i]>> \o GapsBetweenFrom(s, i + 1, l, r)

removeGapsBetween(s, l, r) == GapsBetweenFrom(s, 1, l, r)

\* .replace(/l\s+/g, 'l') for a character l
RECURSIVE GapsAfterFrom(_, _, _)
GapsAfterFrom(s, i, l) ==
  IF i > Len(s) THEN <<>>
  ELSE IF s[i] = l
       THEN <<l>> \o GapsAfterFrom(s, SkipWhitespace(s, i + 1), l)
       ELSE <<s[i]>> \o GapsAfterFrom(s, i + 1, l)

removeGapsAfter(s, l) == GapsAfterFrom(s, 1, l)

\* .replace(/\s+r/g, 'r') for a character r
RECURSIVE GapsBeforeFrom(_, _, _)
GapsBeforeFrom(s, i, r) ==
  IF i > Len(s) THEN <<>>
  ELSE LET j == SkipWhitespace(s, i)
       IN  IF j > i
           THEN IF j <= Len(s) /\ s[j] = r
                THEN <<r>> \o GapsBeforeFrom(s, j + 1, r)
                ELSE SubSeq(s, i, j - 1) \o GapsBeforeFrom(s, j, r)
           ELSE <<s[i]>> \o GapsBeforeFrom(s, i + 1, r)

removeGapsBefore(s, r) == GapsBeforeFrom(s, 1, r)

\* step 3 of strategy 5
cleanUpFormatting(s) ==
  LET a == removeCommaGaps(collapseWhitespace(s))
      b == removeGapsBetween(a, Quote, ":")
      c == removeGapsBetween(b, ":", Quote)
      d == removeGapsBetween(c, ",", Quote)
      e == removeGapsBetween(d, "{", Quote)
      f == removeGapsAfter(e, "[")
      g == removeGapsBefore(f, "]")
  IN  removeGapsBefore(g, "}")

\* Strategy 5: rebuild the JSON; [\x00-\x09\x0B-\x1F\x7F-\x9F] leaves the
\* newline to the whitespace step
Strategy5(response, expectedType) ==
  LET firstIdx == indexOf(response, openChar(expectedType))
      lastIdx == lastIndexOf(response, closeChar(expectedType))
      str == substring(response, firstIdx, lastIdx + 1)
  IN  IF firstIdx = -1 \/ lastIdx = -1 THEN Failed("Cannot find JSON boundaries")
      ELSE ParseOrThrow(restoreNumbered(cleanUpFormatting(protectNumbered(str))))

\* the for loop of strategy 6 from position i (from 0) with the depth before
\* it: the position where the depth returns to 0, or -1
\* mutant: the span ends at the last closing bracket of the text
Strategy6ClosesAtLast(response, expectedType) ==
  LET startIdx == indexOf(response, openChar(expectedType))
      endIdx == lastIndexOf(response, closeChar(expectedType))
  IN  IF startIdx = -1 THEN Failed("No opening bracket found")
      ELSE IF endIdx < startIdx THEN Failed("No matching closing bracket found")
      ELSE ParseOrThrow(sanitizeJsonString(substring(response, startIdx, endIdx + 1)))

RECURSIVE BalanceFrom(_, _, _, _)
BalanceFrom(response, expectedType, i, depth) ==
  IF i >= Len(response) THEN -1
  ELSE LET c == response[i + 1]
           d == depth + (IF c = openChar(expectedType) THEN 1 ELSE 0)
                      - (IF c = closeChar(expectedType) THEN 1 ELSE 0)
       IN  IF d = 0 THEN i ELSE BalanceFrom(response, expectedType, i + 1, d)

\* Strategy 6: smart extraction with bracket balancing
Strategy6(response, expectedType) ==
  LET startIdx == indexOf(response, openChar(expectedType))
      endIdx == BalanceFrom(response, expectedType, startIdx, 0)
  IN  IF startIdx = -1 THEN Failed("No opening bracket found")
      ELSE IF endIdx = -1 THEN Failed("No matching closing bracket found")
      ELSE ParseOrThrow(sanitizeJsonString(substring(response, startIdx, endIdx + 1)))

\* strategies.length
NumStrategies == 6

\* mutant: the strategies are tried from the last to the first
strategyNumberReversed(i) == NumStrategies - i

\* strategies[i] is strategy i + 1
strategyNumber(i) == i + 1

\* strategies[i - 1]()
Strategy(i, response, expectedType) ==
  CASE i = 1 -> Strategy1(response, expectedType)
    [] i = 2 -> Strategy2(response, expectedType)
    [] i = 3 -> Strategy3(response, expectedType)
    [] i = 4 -> Strategy4(response, expectedType)
    [] i = 5 -> Strategy5(response, expectedType)
    [] i = 6 -> Strategy6(response, expectedType)

\* response.slice(0, 100)
PreviewLength == 100
responsePreview(response) == SubSeq(response, 1, Min(PreviewLength, Len(response)))

\* mutant: the missing bracket is looked for before fences and control
\* characters
errorSummaryBracketFirst(response, expectedType) ==
  IF ~includes(response, <<openChar(expectedType)>>)
  THEN IF expectedType = "array" THEN "No array bracket found in response"
                                 ELSE "No object bracket found in response"
  ELSE IF includes(response, Fence)
  THEN "Response contains markdown code blocks"
  ELSE IF \E i \in 1..Len(response) : response[i] \in ControlChars
  THEN "Response contains control characters"
  ELSE "Malformed JSON structure"

\* the diagnosis placed in the final error
errorSummary(response, expectedType) ==
  IF includes(response, Fence \o Json) \/ includes(response, Fence)
  THEN "Response contains markdown code blocks"
  ELSE IF \E i \in 1..Len(response) : response[i] \in ControlChars
  THEN "Response contains control characters"
  ELSE IF ~includes(response, <<openChar(expectedType)>>)
  THEN IF expectedType = "array" THEN "No array bracket found in response"
                                 ELSE "No object bracket found in response"
  ELSE IF includes(responsePreview(response), <<Backslash, "b">>)
  THEN "Response contains invalid escape sequences"
  ELSE "Malformed JSON structure"

\* mutant: the last error is reported
firstErrorOfLast(errors) == errors[Len(errors)]

\* errors[0]
firstErrorOf(errors) == errors[1]

\* the responses handed to parseJsonRobust: every text of up to
\* MaxResponseLen characters over brackets, a digit and a comma, and texts
\* with the malformations the strategies are written for
ShortAlphabet == {"[", "]", "1", ","}
ShortResponses == UNION {[1..k -> ShortAlphabet] : k \in 0..MaxResponseLen}

Quoted(chars) == <<Quote>> \o chars \o <<Quote>>

SampleResponses ==
  { <<"a", " ", "[", "1", "]", " ", "a">>,
    Fence \o Json \o <<LF, "[", "1", "]", LF>> \o Fence,
    <<"[">> \o Quoted(<<"a", LF, "a">>) \o <<"]">>,
    <<"[", LDQuo, "a", RDQuo, "]">>,
    <<"[", "1", "]", " ", "a", " ", "[", "1", "]">>,
    <<"[">> \o Quoted(<<Backslash, Backslash, "a">>) \o <<"]">>,
    <<"[">> \o Quoted(<<Backslash, Backslash, "a">>) \o <<",", "]">>,
    <<"[">> \o Quoted(<<Backslash, Backslash, "1">>) \o <<"]">>,
    <<"a">>,
    <<"{">> \o Quoted(<<"a">>) \o <<" ", ":", " ", "[", "1", "]", "}">>,
    <<"a", "{", "}", "{", "}">>,
    <<"[">> \o Quoted(<<"a", " ", "]">>) \o <<"]">>,
    <<"[">> \o Quoted(<<Backslash, "b">>) \o <<"1", "]">>,
    <<"[">> \o Quoted(Fence) \o <<"]">>,
    <<LF>>,
    Fence \o <<"a">> \o Fence,
    Fence \o Json \o <<LF, "1", LF>> \o Fence }

\* payloads for the malformations the parser is written for: an array of
\* strings, an array of records and one record, built with the character
\* between the two words of the value (sep), the quotation marks (lq, rq) and
\* what stands before the last closing bracket (comma)
PayloadShapes == {"strings", "records", "record"}

expectedTypeOf(shape) == IF shape = "record" THEN "object" ELSE "array"

Payload(shape, sep, lq, rq, comma) ==
  LET key == <<lq, "a", rq>>
      value == <<lq, "a">> \o sep \o <<"a", rq>>
  IN  CASE shape = "strings" -> <<"[">> \o value \o comma \o <<"]">>
        [] shape = "records" ->
             <<"[", "{">> \o key \o <<":", " ">> \o value \o <<"}">>
               \o comma \o <<"]">>
        [] shape = "record" ->
             <<"{">> \o key \o <<":", " ">> \o value \o comma \o <<"}">>

CleanPayload(shape) == Payload(shape, <<" ">>, Quote, Quote, <<>>)

\* a payload between the lines of a json fence
Fenced(payload) == Fence \o Json \o <<LF>> \o payload \o <<LF>> \o Fence

\* prose that holds no bracket, and prose that cites something in brackets
\* of the expected type before the payload
PlainProse(shape) == [before |-> <<"a", " ">>, after |-> <<" ", "a">>]
BracketedProse(shape) ==
  [before |-> <<openChar(expectedTypeOf(shape)), "a",
                closeChar(expectedTypeOf(shape)), " ">>,
   after |-> <<" ", "a">>]

Malformations ==
  {"fences", "newline", "smart quotes", "trailing comma", "prose"}

Malformed(class, shape) ==
  CASE class = "fences" -> Fenced(CleanPayload(shape))
    [] class = "newline" -> Payload(shape, <<LF>>, Quote, Quote, <<>>)
    [] class = "smart quotes" -> Payload(shape, <<" ">>, LDQuo, RDQuo, <<>>)
    [] class = "trailing comma" -> Payload(shape, <<" ">>, Quote, Quote, <<",">>)
    [] class = "prose" ->
         PlainProse(shape).before \o CleanPayload(shape)
           \o PlainProse(shape).after
    [] class = "bracketed prose" ->
         BracketedProse(shape).before \o CleanPayload(shape)
           \o BracketedProse(shape).after

PayloadResponses ==
  {CleanPayload(shape) : shape \in PayloadShapes}
    \cup {Malformed(class, shape) :
            class \in Malformations \cup {"bracketed prose"},
            shape \in PayloadShapes}

\* the array of one record in a fence, the two words of its value parted by
\* a newline, and by the escape sequence of a newline
FencedNewline == Fenced(Payload("records", <<LF>>, Quote, Quote, <<>>))
FencedEscape ==
  Fenced(Payload("records", <<Backslash, "n">>, Quote, Quote, <<>>))

\* an array in an array with text after it that holds a closing bracket, and
\* the same with a closing bracket inside the string of the inner array
NestedThenText == <<"[", "[", "1", "]", "]", " ", "a", "]">>
NestedBracketInString ==
  <<"[", "[">> \o Quoted(<<"a", "]">>) \o <<"]", "]", " ", "a">>

Responses ==
  ShortResponses \cup SampleResponses \cup PayloadResponses
    \cup {FencedNewline, FencedEscape, NestedThenText, NestedBracketInString}

NoParse ==
  [status |-> "idle", response |-> <<>>, expectedType |-> "array", i |-> 0,
   errors |-> <<>>, result |-> NoValue, summary |-> "none",
   firstError |-> [strategy |-> 0, message |-> "none"], ran |-> <<>>]

\* one pass of the for loop: strategies[i]() in its try, the return, the catch
LoopBody(p) ==
  LET n == strategyNumber(p.i)
      r == Strategy(n, p.response, p.expectedType)
  IN  IF r.ok
      THEN [p EXCEPT !.status = "returned", !.result = r.value,
                     !.ran = Append(@, n)]
      ELSE [p EXCEPT !.errors = Append(@, [strategy |-> n, message |-> r.error]),
                     !.i = @ + 1,
                     !.ran = Append(@, n)]

\* what a call returns or throws: the loop run to its end
parseJsonRobust(response, expectedType) ==
  LET succeed == {n \in 1..NumStrategies : Strategy(n, response, expectedType).ok}
      first == CHOOSE n \in succeed : \A m \in succeed : n <= m
  IN  IF succeed = {} THEN Failed(errorSummary(response, expectedType))
      ELSE Strategy(first, response, expectedType)

\* the throw after the loop
AllFailed(p) ==
  [p EXCEPT !.status = "threw",
            !.summary = errorSummary(p.response, p.expectedType),
            !.firstError = firstErrorOf(p.errors)]

(* ------------------------- the questions generated --------------------- *)
\* const maxAttempts = 5
maxAttempts == 5

\* 'MCQ' | 'MSQ' | 'NAT' | 'Subjective'
QuestionTypes == {"MCQ", "MSQ", "NAT", "Subjective"}
MultipleChoice == {"MCQ", "MSQ"}

\* options: the length of the list, or NoOptions when the field is missing
NoOptions == -1

\* a question of the parsed response: the statement and the answer are
\* strings, the empty one standing for a missing field as well, question_type
\* is any string, "" when missing, options is the length of the list. MSQ
\* goes the way of MCQ and Subjective the way of NAT in every test made
DeclaredTypes == {"MCQ", "NAT", "other", ""}

Questions ==
  [statement : {<<>>, <<" ">>, <<"q">>},
   questionType : DeclaredTypes,
   options : {NoOptions, 0, 3, 4},
   answer : {<<>>, <<"a">>}]

NoQuestion ==
  [statement |-> <<>>, questionType |-> "", options |-> NoOptions, answer |-> <<>>]

\* what generateQuestionsForTopic meets: callGeminiAPI throws, the text is
\* empty, parseJsonRobust throws, the value parsed is no array, or it is an
\* array of questions
GenerateOutcomes ==
  [kind : {"exhausted", "empty", "unparsable", "not-array"}, questions : {<<>>}]
    \cup [kind : {"array"}, questions : {<<>>} \cup {<<q>> : q \in Questions}]

GenerateThrew == [threw |-> TRUE, questions |-> <<>>]
GenerateReturned(questions) == [threw |-> FALSE, questions |-> questions]

\* !q.question_statement || !q.question_type || !q.answer
MissingRequiredFields(q) ==
  q.statement = <<>> \/ q.questionType = "" \/ q.answer = <<>>

\* mutant: the options of a declared MCQ or MSQ are not counted
WrongOptionCountNever(q) == FALSE

\* (q.question_type === 'MCQ' || q.question_type === 'MSQ') &&
\* (!q.options || q.options.length !== 4)
WrongOptionCount(q) ==
  q.questionType \in MultipleChoice /\ (q.options = NoOptions \/ q.options # 4)

\* generateQuestionsForTopic from the settled callGeminiAPI to its return or
\* throw
generateQuestionsForTopic(outcome) ==
  IF outcome.kind # "array" THEN GenerateThrew
  ELSE IF Len(outcome.questions) = 0 THEN GenerateThrew
  ELSE IF \E i \in 1..Len(outcome.questions) :
            \/ MissingRequiredFields(outcome.questions[i])
            \/ WrongOptionCount(outcome.questions[i])
       THEN GenerateThrew
       ELSE GenerateReturned(outcome.questions)

\* validateQuestionAnswer(question).isValid
validateQuestionAnswer(question) ==
  IF question.statement = <<>> \/ trim(question.statement) = <<>> THEN FALSE
  ELSE IF question.questionType = "" \/ question.questionType \notin QuestionTypes
       THEN FALSE
  ELSE IF /\ question.questionType \in MultipleChoice
          /\ (question.options = NoOptions \/ question.options = 0)
       THEN FALSE
  ELSE TRUE

\* (questionType === 'MCQ' || questionType === 'MSQ') && question.options
\* and question.options.length !== 4, questionType being the component's
OptionsRejected(questionType, question) ==
  /\ questionType \in MultipleChoice
  /\ question.options # NoOptions
  /\ question.options # 4

\* questionToSave
questionToSave(questionType, question) ==
  [kind |-> "question", statement |-> question.statement,
   questionType |-> questionType, options |-> question.options,
   answer |-> question.answer]

\* what generateSolutionsForPYQs comes to: a throw of callGeminiAPI or of
\* parseJsonRobust, an empty list, or a list of solutions
SolutionOutcomes == {"threw", "none", "some"}

\* updateData: the answer and the solution of solutions[0]
solutionToSave ==
  [kind |-> "solution", statement |-> <<>>, questionType |-> "",
   options |-> NoOptions, answer |-> <<>>]

NoSaved ==
  [kind |-> "none", statement |-> <<>>, questionType |-> "",
   options |-> NoOptions, answer |-> <<>>]

(* ------------------------------ the driver ----------------------------- *)
\* startGeneration calls that can be in progress at once
MaxRuns == 2
Runs == 1..MaxRuns

\* topicsWithQuestions: questionsToGenerate of each topic
TopicPlans == { <<1, 0, 2>> }

\* what the three selects of generatePYQSolutions come to: an error or
\* nothing to solve, or the number of records without a solution
MaxRecords == 2
PYQLoads == {"nothing", "records"}

\* the question types the component is set to: MSQ is treated as MCQ is,
\* Subjective as NAT is
SelectedTypes == {"MCQ", "NAT"}

\* the API keys typed into the component
TypedKeyLists == { << <<" ">> >>, << <<"a">>, <<>> >> }

\* getValidApiKeys()
getValidApiKeys(apiKeys) == SelectSeq(apiKeys, LAMBDA key : trim(key) # <<>>)

NoProgress == [isGenerating |-> FALSE, isPaused |-> FALSE]

\* one startGeneration call. mode, questionType and isPaused are the state
\* of the render whose handler was clicked; plan, topicIndex (from 1),
\* questionIndex (from 1), attempts, validQuestionGenerated and pending (the
\* record handed to the store) are locals of the loop. History:
\* stopRequested says stopGeneration ran since the call began, visited counts
\* the units begun
NoRun ==
  [pc |-> "idle", mode |-> "none", questionType |-> "MCQ", isPaused |-> FALSE,
   plan |-> <<>>, topicIndex |-> 0, questionIndex |-> 0, attempts |-> 0,
   validQuestionGenerated |-> FALSE, pending |-> NoSaved,
   stopRequested |-> FALSE, visited |-> 0]

Active(run) == run.pc \notin {"idle", "done"}

\* the return of the loop function and the finally block of startGeneration
Finish(run) ==
  [NoRun EXCEPT !.pc = "done", !.mode = run.mode, !.plan = run.plan,
                !.visited = run.visited]

\* the head of the loop over units up to the generate call: the test of
\* the isPaused the call captured, then the first cycle of the unit
StartUnit(run) ==
  IF run.isPaused
  THEN [run EXCEPT !.pc = "pausePoll"]
  ELSE [run EXCEPT !.attempts = 1,
                   !.validQuestionGenerated = FALSE,
                   !.pc = "generate",
                   !.visited = @ + 1]

\* the end of the loop over a topic's units: the delay between topics, or
\* the end of the run after the last topic
TopicEnd(run) ==
  IF run.topicIndex < Len(run.plan)
  THEN [run EXCEPT !.pc = "topicDelay"]
  ELSE Finish(run)

\* the loop over units from unit q of the current topic
QuestionLoop(run, q) ==
  IF q > run.plan[run.topicIndex]
  THEN TopicEnd(run)
  ELSE StartUnit([run EXCEPT !.questionIndex = q])

\* the loop over topics from topic t: topics with nothing to generate are
\* passed over, the next one loads its records
TopicLoop(run, t) ==
  LET rest == {k \in t..Len(run.plan) : run.plan[k] # 0}
  IN  IF rest = {} THEN Finish(run)
      ELSE [run EXCEPT !.topicIndex = CHOOSE k \in rest : \A j \in rest : k <= j,
                       !.questionIndex = 0,
                       !.pc = "load"]

\* the unit is left: the next unit of the topic, or the end of the topic
LeaveUnit(run) == QuestionLoop(run, run.questionIndex + 1)

\* mutant: a unit is given up after its first cycle
AfterCycleNoRetry(run) == LeaveUnit(run)

\* while (!validQuestionGenerated && attempts < maxAttempts)
AfterCycle(run) ==
  IF ~run.validQuestionGenerated /\ run.attempts < maxAttempts
  THEN [run EXCEPT !.attempts = @ + 1, !.pc = "generate"]
  ELSE LeaveUnit(run)

\* generateNewQuestions from the settled generateQuestionsForTopic to the
\* next await
QuestionGenerated(run, outcome) ==
  LET r == generateQuestionsForTopic(outcome)
      question == r.questions[1]
  IN  IF r.threw THEN [run EXCEPT !.pc = "delay"]
      ELSE IF Len(r.questions) = 0 THEN [run EXCEPT !.pc = "delay"]
      ELSE IF ~validateQuestionAnswer(question) THEN [run EXCEPT !.pc = "delay"]
      ELSE IF OptionsRejected(run.questionType, question)
           THEN [run EXCEPT !.pc = "delay"]
      ELSE [run EXCEPT !.pc = "store",
                       !.pending = questionToSave(run.questionType, question)]

\* a loop whose catch ends the run instead of going on to the next record
SolutionGeneratedAborts(run, outcome) ==
  CASE outcome = "threw" -> Finish(run)
    [] outcome = "none" -> [run EXCEPT !.pc = "delay"]
    [] outcome = "some" -> [run EXCEPT !.pc = "store", !.pending = solutionToSave]

\* generatePYQSolutions from the settled generateSolutionsForPYQs to the
\* next await
SolutionGenerated(run, outcome) ==
  CASE outcome = "threw" -> LeaveUnit(run)
    [] outcome = "none" -> [run EXCEPT !.pc = "delay"]
    [] outcome = "some" -> [run EXCEPT !.pc = "store", !.pending = solutionToSave]

\* either loop from the settled insert or update to the delay that follows
Stored(run, accepted) ==
  [run EXCEPT !.validQuestionGenerated = accepted,
              !.pending = NoSaved,
              !.pc = "delay"]

\* either loop from a timer that fired to the next await
AfterTimer(run) ==
  CASE run.pc = "delay" /\ run.mode = "new_questions" -> AfterCycle(run)
    [] run.pc = "delay" /\ run.mode = "pyq_solutions" -> LeaveUnit(run)
    [] run.pc = "topicDelay" -> TopicLoop(run, run.topicIndex + 1)
    [] run.pc = "pausePoll" -> StartUnit(run)

\* either loop from its settled selects to the next await
Loaded(run, load) ==
  CASE run.mode = "new_questions" -> QuestionLoop(run, 1)
    [] run.mode = "pyq_solutions" /\ load = "nothing" -> Finish(run)
    [] run.mode = "pyq_solutions" /\ load = "records" ->
         QuestionLoop([run EXCEPT !.plan = <<MaxRecords>>, !.topicIndex = 1], 1)

\* startGeneration from the click to the first await of the loop
Started(mode, questionType, plan, paused) ==
  IF mode = "new_questions"
  THEN TopicLoop([NoRun EXCEPT !.mode = mode, !.questionType = questionType,
                               !.isPaused = paused, !.plan = plan], 1)
  ELSE [NoRun EXCEPT !.mode = mode, !.isPaused = paused, !.pc = "load"]

(* ----------------------- calculateTopicQuestions ---------------------- *)
\* topic.weightage in units of the least non-zero weightage; a topic
\* without weightage has 0
Weightages == 0..2

\* the most topics a course has
MaxTopics == 3

\* the topics loaded for the course, by their weightages, in the order of
\* the select (weightage descending); startGeneration returns before the
\* calculation when there is none
TopicLists ==
  {topics \in UNION {[1..n -> Weightages] : n \in 1..MaxTopics} :
     \A i \in 1..(Len(topics) - 1) : topics[i] >= topics[i + 1]}

\* the totals typed into the component: parseInt(value) || 30 lets no 0 through
TotalChoices == {1, 2, 3, 10, 30, 500}

\* totalQuestions >= 500
ZeroWeightageThreshold == 500

RECURSIVE SumSeq(_)
SumSeq(seq) == IF seq = <<>> THEN 0 ELSE Head(seq) + SumSeq(Tail(seq))

\* Math.round(numerator / denominator) for a quotient that is not negative:
\* the nearest integer, the upper one at a tie
MathRound(numerator, denominator) ==
  (2 * numerator + denominator) \div (2 * denominator)

MathMax(a, b) == IF a >= b THEN a ELSE b

\* calculateTopicQuestions: topics is the list of the weightages, the result
\* has the questionsToGenerate of each topic in topics
calculateTopicQuestions(topics, totalQuestions) ==
  LET totalWeightage == SumSeq(topics)
      shouldGenerateForZeroWeightage == totalQuestions >= ZeroWeightageThreshold
      extraQuestionsCount ==
        IF shouldGenerateForZeroWeightage
        THEN Len(SelectSeq(topics, LAMBDA w : w = 0)) ELSE 0
  IN  [topics |-> [i \in 1..Len(topics) |->
                     IF topics[i] = 0
                     THEN IF shouldGenerateForZeroWeightage THEN 1 ELSE 0
                     ELSE MathMax(1, MathRound(topics[i] * totalQuestions,
                                               totalWeightage))],
       totalQuestionsToGenerate |-> totalQuestions + extraQuestionsCount,
       extraQuestionsCount |-> extraQuestionsCount]

\* weightages and totalQuestions are the arguments of the call,
\* questionsToGenerate its result per topic; totalQuestionsTarget and
\* totalQuestionsGenerated are the counters of the progress state
NoCalculation ==
  [started |-> FALSE, weightages |-> <<>>, totalQuestions |-> 0,
   questionsToGenerate |-> <<>>, totalQuestionsTarget |-> 0,
   totalQuestionsGenerated |-> 0]

(* ------------------------------- actions ------------------------------- *)
Init ==
  /\ API_KEY_STATES = <<>>
  /\ currentKeyIndex = 0
  /\ ret = NoCall
  /\ selections = 0
  /\ failureReported = FALSE
  /\ streak = <<>>
  /\ invocation = NoInvocation
  /\ log = NoLog
  /\ parse = NoParse
  /\ progress = NoProgress
  /\ runs = [r \in Runs |-> NoRun]
  /\ concurrent = [c \in {"first", "second"} |-> NoInvocation]
  /\ calculation = NoCalculation

CallSetGeminiApiKeys ==
  \E keys \in KeyLists :
    LET r == setGeminiApiKeys(API_KEY_STATES, currentKeyIndex, keys)
    IN  /\ API_KEY_STATES' = r.states
        /\ currentKeyIndex' = r.cursor
        /\ ret' = [NoCall EXCEPT !.op = "configure", !.threw = r.threw, !.keys = keys,
                                 !.cursorBefore = currentKeyIndex]
        /\ UNCHANGED <<invocation, log, parse, progress, runs, concurrent, calculation>>
        /\ IF r.threw
           THEN UNCHANGED <<selections, failureReported, streak>>
           ELSE /\ selections' = 0
                /\ failureReported' = FALSE
                /\ streak' = [i \in 1..Len(r.states) |-> 0]

CallGetNextGeminiKey ==
  /\ selections < MaxSelections
  /\ LET r == getNextGeminiKey(API_KEY_STATES, currentKeyIndex, Now)
     IN  /\ API_KEY_STATES' = r.states
         /\ currentKeyIndex' = r.cursor
         /\ ret' = [NoCall EXCEPT !.op = "select", !.threw = r.threw, !.index = r.index,
                                  !.key = r.key, !.resets = r.resets,
                                  !.cursorBefore = currentKeyIndex]
         /\ selections' = IF r.threw THEN selections ELSE selections + 1
         /\ streak' = IF r.resets > 0 THEN [i \in 1..Len(streak) |-> 0] ELSE streak
         /\ UNCHANGED <<failureReported, invocation, log, parse, progress, runs, concurrent, calculation>>

\* keyIndex is an index some selection returned, possibly for a larger pool
CallMarkKeyError ==
  \E keyIndex \in 0..MaxKeys, errorMessage \in Messages :
    /\ InRange(keyIndex) => API_KEY_STATES[keyIndex + 1].errorCount < MaxErrorCount
    /\ API_KEY_STATES' = markKeyError(API_KEY_STATES, keyIndex, errorMessage)
    /\ ret' = [NoCall EXCEPT !.op = "fail", !.index = keyIndex]
    /\ failureReported' = TRUE
    /\ streak' = IF InRange(keyIndex) THEN [streak EXCEPT ![keyIndex + 1] = @ + 1] ELSE streak
    /\ UNCHANGED <<currentKeyIndex, selections, invocation, log, parse, progress, runs, concurrent, calculation>>

CallMarkKeySuccess ==
  \E keyIndex \in 0..MaxKeys :
    /\ API_KEY_STATES' = markKeySuccess(API_KEY_STATES, keyIndex)
    /\ ret' = [NoCall EXCEPT !.op = "success", !.index = keyIndex]
    /\ streak' = IF InRange(keyIndex) THEN [streak EXCEPT ![keyIndex + 1] = 0] ELSE streak
    /\ UNCHANGED <<currentKeyIndex, selections, failureReported, invocation, log, parse, progress, runs, concurrent, calculation>>

CallGetApiKeyStats ==
  /\ ret' = [op |-> "stats", threw |-> FALSE, index |-> -1, key |-> <<>>,
             resets |-> 0, cursorBefore |-> currentKeyIndex, keys |-> <<>>,
             stats |-> getApiKeyStats(API_KEY_STATES)]
  /\ UNCHANGED <<API_KEY_STATES, currentKeyIndex, selections, failureReported,
                 streak, invocation, log, parse, progress, runs, concurrent, calculation>>

Next ==
  \/ CallSetGeminiApiKeys
  \/ CallGetNextGeminiKey
  \/ CallMarkKeyError
  \/ CallMarkKeySuccess
  \/ CallGetApiKeyStats

Spec == Init /\ [][Next]_vars

(* ----------------- callGeminiAPI calls, one at a time ------------------ *)
World == [states |-> API_KEY_STATES, cursor |-> currentKeyIndex,
          inv |-> invocation, log |-> log]

Becomes(w) ==
  /\ API_KEY_STATES' = w.states
  /\ currentKeyIndex' = w.cursor
  /\ invocation' = w.inv
  /\ log' = w.log
  /\ UNCHANGED <<ret, selections, failureReported, streak, parse, progress, runs, concurrent, calculation>>

Running == invocation.pc \in {"fetch", "wait"}

\* the keys are set before a run of calls; what is known of the last call
\* is dropped with the pool it ran on
Configure ==
  /\ ~Running
  /\ \E keys \in PlainKeyLists :
       LET r == setGeminiApiKeys(API_KEY_STATES, currentKeyIndex, keys)
       IN  Becomes([states |-> r.states, cursor |-> r.cursor,
                    inv |-> IF r.threw THEN invocation ELSE NoInvocation,
                    log |-> IF r.threw THEN log ELSE NoLog])

Invoke ==
  /\ ~Running
  /\ log.invokes < MaxInvokes
  /\ \E prompt \in Prompts : Becomes(StartCall(World, prompt))

Respond ==
  /\ invocation.pc = "fetch"
  /\ \E outcome \in Outcomes : Becomes(HandleResponse(World, outcome))

BackoffDone ==
  /\ invocation.pc = "wait"
  /\ Becomes(BeginAttempt(World))

NextInvoke ==
  \/ Configure
  \/ Invoke
  \/ Respond
  \/ BackoffDone

SpecInvoke == Init /\ [][NextInvoke]_vars

\* every request settles and every timer fires
SpecInvokeLive == SpecInvoke /\ WF_vars(Respond) /\ WF_vars(BackoffDone)

(* ------------------- two callGeminiAPI calls at once ------------------ *)
\* the calls of two loops that run side by side
Calls == {"first", "second"}

\* the pool and the locals of call c; the history of these calls is not kept
ConcurrentWorld(c) == [states |-> API_KEY_STATES, cursor |-> currentKeyIndex,
                       inv |-> concurrent[c], log |-> NoLog]

ConcurrentBecomes(c, w) ==
  /\ API_KEY_STATES' = w.states
  /\ currentKeyIndex' = w.cursor
  /\ concurrent' = [concurrent EXCEPT ![c] = w.inv]
  /\ UNCHANGED <<ret, selections, failureReported, streak, invocation, log, parse,
                 progress, runs, calculation>>

InFlight(c) == concurrent[c].pc \in {"fetch", "wait"}

\* the keys are set while no call is in flight
ConfigureConcurrent ==
  /\ \A c \in Calls : ~InFlight(c)
  /\ \E keys \in PlainKeyLists :
       LET r == setGeminiApiKeys(API_KEY_STATES, currentKeyIndex, keys)
       IN  /\ ~r.threw
           /\ API_KEY_STATES' = r.states
           /\ currentKeyIndex' = r.cursor
           /\ concurrent' = [c \in Calls |-> NoInvocation]
  /\ UNCHANGED <<ret, selections, failureReported, streak, invocation, log, parse,
                 progress, runs, calculation>>

\* a loop calls callGeminiAPI, whatever the call of the other loop is doing
InvokeConcurrent ==
  \E c \in Calls :
    /\ concurrent[c].pc = "idle"
    /\ \E prompt \in Prompts : ConcurrentBecomes(c, StartCall(ConcurrentWorld(c), prompt))

RespondConcurrent ==
  \E c \in Calls :
    /\ concurrent[c].pc = "fetch"
    /\ \E outcome \in Outcomes :
         ConcurrentBecomes(c, HandleResponse(ConcurrentWorld(c), outcome))

BackoffDoneConcurrent ==
  \E c \in Calls :
    /\ concurrent[c].pc = "wait"
    /\ ConcurrentBecomes(c, BeginAttempt(ConcurrentWorld(c)))

\* the awaits of the two calls settle in any order
NextConcurrent ==
  \/ ConfigureConcurrent
  \/ InvokeConcurrent
  \/ RespondConcurrent
  \/ BackoffDoneConcurrent

SpecConcurrent == Init /\ [][NextConcurrent]_vars

(* --------------------- the target and the work done ------------------- *)
OnlyCalculation ==
  UNCHANGED <<API_KEY_STATES, currentKeyIndex, ret, selections, failureReported,
              streak, invocation, log, parse, progress, runs, concurrent>>

\* startGeneration: the calculation and the progress state set from it
StartCalculated ==
  /\ \E topics \in TopicLists, totalQuestions \in TotalChoices :
       LET calculationResult == calculateTopicQuestions(topics, totalQuestions)
       IN  calculation' =
             [started |-> TRUE, weightages |-> topics,
              totalQuestions |-> totalQuestions,
              questionsToGenerate |-> calculationResult.topics,
              totalQuestionsTarget |-> calculationResult.totalQuestionsToGenerate,
              totalQuestionsGenerated |-> 0]
  /\ OnlyCalculation

\* generateNewQuestions: one more of the questions to generate is saved and
\* the counter of the progress state is set to totalGenerated
QuestionCounted ==
  /\ calculation.started
  /\ calculation.totalQuestionsGenerated < SumSeq(calculation.questionsToGenerate)
  /\ calculation' = [calculation EXCEPT !.totalQuestionsGenerated = @ + 1]
  /\ OnlyCalculation

NextCalculate ==
  \/ StartCalculated
  \/ QuestionCounted

SpecCalculate == Init /\ [][NextCalculate]_vars

(* ------------------------- parseJsonRobust calls ----------------------- *)
PoolUntouched ==
  UNCHANGED <<API_KEY_STATES, currentKeyIndex, ret, selections, failureReported,
              streak, invocation, log, progress, runs, concurrent, calculation>>

CallParseJsonRobust ==
  /\ parse.status # "running"
  /\ \E response \in Responses, expectedType \in ExpectedTypes :
       parse' = [NoParse EXCEPT !.status = "running", !.response = response,
                                !.expectedType = expectedType]
  /\ PoolUntouched

TryStrategy ==
  /\ parse.status = "running"
  /\ parse.i < NumStrategies
  /\ parse' = LoopBody(parse)
  /\ PoolUntouched

ThrowAllFailed ==
  /\ parse.status = "running"
  /\ parse.i >= NumStrategies
  /\ parse' = AllFailed(parse)
  /\ PoolUntouched

NextParse ==
  \/ CallParseJsonRobust
  \/ TryStrategy
  \/ ThrowAllFailed

SpecParse == Init /\ [][NextParse]_vars

(* --------------------------- the component's runs ---------------------- *)
\* 'new_questions' | 'pyq_solutions'
GenerationModes == {"new_questions", "pyq_solutions"}

DriverOnly ==
  UNCHANGED <<ret, selections, failureReported, streak, invocation, log, parse,
              concurrent, calculation>>

PoolKept == UNCHANGED <<API_KEY_STATES, currentKeyIndex>>

\* a call goes on to its next await; at its end the finally block of
\* startGeneration clears the flags of the component
Continues(r, run) ==
  /\ runs' = [runs EXCEPT ![r] = run]
  /\ progress' = IF run.pc = "done" THEN NoProgress ELSE progress

\* a generate call is in flight: the loop awaits generateQuestionsForTopic
\* or generateSolutionsForPYQs, which awaits callGeminiAPI
InvokeInFlight(run) == run.pc = "generate"

\* the click on the start button, which is rendered while isGenerating is
\* false, with an exam, a course and topics selected: the checkpoints, the
\* configuration of the pool, and the loop up to its first await. The
\* attempts of callGeminiAPI are the actions of SpecInvoke; here the call is
\* one await of the loop
StartGeneration ==
  /\ ~progress.isGenerating
  /\ \E apiKeys \in TypedKeyLists, mode \in GenerationModes,
        questionType \in SelectedTypes, plan \in TopicPlans :
       LET validApiKeys == getValidApiKeys(apiKeys)
           configured == setGeminiApiKeys(API_KEY_STATES, currentKeyIndex, validApiKeys)
           free == {r \in Runs : ~Active(runs[r])}
           r == CHOOSE k \in free : \A j \in free : k <= j
           run == Started(mode, questionType, plan, progress.isPaused)
       IN  /\ free # {}
           /\ Len(validApiKeys) > 0
           /\ ~configured.threw
           /\ API_KEY_STATES' = configured.states
           /\ currentKeyIndex' = configured.cursor
           /\ runs' = [runs EXCEPT ![r] = run]
           /\ progress' = IF run.pc = "done" THEN NoProgress
                          ELSE [isGenerating |-> TRUE, isPaused |-> FALSE]
  /\ DriverOnly

\* the click on the pause button, rendered while isGenerating is true
PauseGeneration ==
  /\ progress.isGenerating
  /\ progress' = [progress EXCEPT !.isPaused = ~@]
  /\ UNCHANGED runs
  /\ PoolKept
  /\ DriverOnly

\* the click on the stop button, rendered while isGenerating is true
StopGeneration ==
  /\ progress.isGenerating
  /\ progress' = NoProgress
  /\ runs' = [r \in Runs |->
                IF Active(runs[r]) THEN [runs[r] EXCEPT !.stopRequested = TRUE]
                ELSE runs[r]]
  /\ PoolKept
  /\ DriverOnly

\* the selects of a loop settle
LoadDone ==
  /\ \E r \in Runs :
       /\ runs[r].pc = "load"
       /\ \E load \in PYQLoads : Continues(r, Loaded(runs[r], load))
  /\ PoolKept
  /\ DriverOnly

\* the generate call of a loop settles
GenerateDone ==
  /\ \E r \in Runs :
       /\ runs[r].pc = "generate"
       /\ \/ /\ runs[r].mode = "new_questions"
             /\ \E outcome \in GenerateOutcomes :
                  Continues(r, QuestionGenerated(runs[r], outcome))
          \/ /\ runs[r].mode = "pyq_solutions"
             /\ \E outcome \in SolutionOutcomes :
                  Continues(r, SolutionGenerated(runs[r], outcome))
  /\ PoolKept
  /\ DriverOnly

\* the insert or the update of a loop settles, with an error or without
StoreDone ==
  /\ \E r \in Runs :
       /\ runs[r].pc = "store"
       /\ \E accepted \in BOOLEAN : Continues(r, Stored(runs[r], accepted))
  /\ PoolKept
  /\ DriverOnly

\* a timer of a loop fires
TimerFires ==
  /\ \E r \in Runs :
       /\ runs[r].pc \in {"delay", "topicDelay", "pausePoll"}
       /\ Continues(r, AfterTimer(runs[r]))
  /\ PoolKept
  /\ DriverOnly

NextDriver ==
  \/ StartGeneration
  \/ PauseGeneration
  \/ StopGeneration
  \/ LoadDone
  \/ GenerateDone
  \/ StoreDone
  \/ TimerFires

SpecDriver == Init /\ [][NextDriver]_vars

\* a run in which neither pause nor stop is requested; every await settles
NextRun ==
  \/ StartGeneration
  \/ LoadDone
  \/ GenerateDone
  \/ StoreDone
  \/ TimerFires

SpecRun ==
  /\ Init
  /\ [][NextRun]_vars
  /\ WF_vars(LoadDone)
  /\ WF_vars(GenerateDone)
  /\ WF_vars(StoreDone)
  /\ WF_vars(TimerFires)

(* ------------------------------ shorthands ----------------------------- *)
PoolSize == Len(API_KEY_STATES)
Indices == 0..(PoolSize - 1)
KeyAt(i) == API_KEY_STATES[i + 1]

TypeOK ==
  /\ currentKeyIndex \in 0..MaxKeys
  /\ PoolSize > 0 => currentKeyIndex \in Indices
  /\ Len(streak) = PoolSize
  /\ \A i \in Indices : KeyAt(i).usageCount \in 0..MaxSelections

(* ------------------------- steps seen from outside --------------------- *)
\* a getNextGeminiKey call that returned a key
SelectStep == selections' = selections + 1
\* a getNextGeminiKey call, whatever its outcome, that changed something
SelectCall == ret'.op = "select" /\ vars' # vars
SomeActive == \E i \in Indices : KeyAt(i).isActive
\* the number of inactive entries between position c and the first active one
Skipped(c) ==
  IF SomeActive
  THEN CHOOSE d \in 0..(PoolSize - 1) :
         /\ KeyAt((c + d) % PoolSize).isActive
         /\ \A e \in 0..(d - 1) : ~KeyAt((c + e) % PoolSize).isActive
  ELSE 0
FirstActiveFrom(c) == (c + Skipped(c)) % PoolSize

RECURSIVE SumUsage(_)
SumUsage(n) == IF n = 0 THEN 0 ELSE API_KEY_STATES[n].usageCount + SumUsage(n - 1)

(* ================================ C1 =================================== *)
\* C1: in every reachable state, every credential with errorCount >= 3 is
\* inactive.
C1_ThreeErrorsInactive ==
  \A i \in Indices : KeyAt(i).errorCount >= 3 => ~KeyAt(i).isActive

\* a credential reached the threshold through markKeyError on a 2-key pool
C1_Witness ==
  /\ PoolSize = 2
  /\ ret.op = "fail"
  /\ InRange(ret.index)
  /\ KeyAt(ret.index).errorCount >= 3
  /\ \E j \in Indices : KeyAt(j).isActive

(* ================================ C2 =================================== *)
\* C2: while no failure has been reported since the configuration, after k
\* selections on N credentials credential i has been selected k \div N times,
\* plus once more if i < k mod N, and the k-th selection (counted from 0)
\* returned index k mod N; so after a multiple M of N selections each
\* credential was selected exactly M / N times, in cyclic order from index 0.
C2_RotationFairness ==
  (PoolSize > 0 /\ ~failureReported) =>
    /\ \A i \in Indices :
         KeyAt(i).usageCount =
           (selections \div PoolSize) + (IF i < selections % PoolSize THEN 1 ELSE 0)
    /\ (ret.op = "select" /\ selections > 0) =>
         /\ ~ret.threw
         /\ ret.index = (selections - 1) % PoolSize
         /\ ret.key = KeyAt(ret.index).key

\* two credentials, the rotation has wrapped around to the first one again
C2_Witness ==
  /\ PoolSize = 2
  /\ ~failureReported
  /\ selections = 3
  /\ ret.op = "select"
  /\ ret.index = 0

(* ================================ C3 =================================== *)
\* C3: when at least one credential is active, getNextGeminiKey returns the
\* first active credential in cyclic order from the cursor, raises only that
\* credential's usageCount, by 1, and leaves the cursor at (returned index + 1)
\* mod poolSize.
C3_SelectsFirstActive ==
  [][(SelectCall /\ SomeActive) =>
       LET sel == FirstActiveFrom(currentKeyIndex)
       IN  /\ ~ret'.threw
           /\ ret'.index = sel
           /\ ret'.key = KeyAt(sel).key
           /\ Len(API_KEY_STATES') = PoolSize
           /\ \A i \in Indices :
                API_KEY_STATES'[i + 1].usageCount =
                  KeyAt(i).usageCount + (IF i = sel THEN 1 ELSE 0)
           /\ currentKeyIndex' = (sel + 1) % PoolSize]_vars

\* a selection that passed over an inactive credential
C3_Witness ==
  /\ ret.op = "select"
  /\ ~ret.threw
  /\ ret.resets = 0
  /\ ret.index # ret.cursorBefore
  /\ ~KeyAt(ret.cursorBefore).isActive
  /\ KeyAt(ret.index).usageCount > 0

(* ================================ C4 =================================== *)
\* C4 (as claimed): every selection moves the cursor by exactly one position
\* (mod pool size), also when inactive credentials are skipped.
C4_CursorAdvancesByOne ==
  [][SelectStep => currentKeyIndex' = (currentKeyIndex + 1) % PoolSize]_vars

\* C4 (amended): every selection moves the cursor by one position plus one for
\* each inactive credential the scan skipped; it moves by exactly one when the
\* credential at the cursor is active or when the whole pool is inactive.
C4_CursorAdvancesPastSkipped ==
  [][SelectStep =>
       /\ currentKeyIndex' = (currentKeyIndex + 1 + Skipped(currentKeyIndex)) % PoolSize
       /\ (KeyAt(currentKeyIndex).isActive \/ ~SomeActive) =>
            currentKeyIndex' = (currentKeyIndex + 1) % PoolSize]_vars

\* a selection after which the cursor is not one past its old position
C4_Witness ==
  /\ ret.op = "select"
  /\ ~ret.threw
  /\ currentKeyIndex # (ret.cursorBefore + 1) % PoolSize

(* ================================ C5 =================================== *)
\* the failures counted since the last success, reset or configuration
\* reached 3: the credential is inactive
C5_StreakInactive ==
  \A i \in Indices : streak[i + 1] >= 3 => ~KeyAt(i).isActive

\* C5: a credential with 3 markKeyError calls and no markKeySuccess since
\* (counted from the last full reset or configuration) is inactive, and no
\* selection returns it while another credential is active.
C5_DeactivatedIsSkipped ==
  /\ []C5_StreakInactive
  /\ [][SelectStep =>
          \A i \in Indices :
            (streak[i + 1] >= 3 /\ \E j \in Indices \ {i} : KeyAt(j).isActive)
              => ret'.index # i]_vars

\* the credential at the cursor has failed 3 times and the selection went to
\* the other one
C5_Witness ==
  /\ ret.op = "select"
  /\ ~ret.threw
  /\ ret.resets = 0
  /\ streak[ret.cursorBefore + 1] >= 3
  /\ ~KeyAt(ret.cursorBefore).isActive
  /\ ret.index # ret.cursorBefore

(* ================================ C6 =================================== *)
\* the state right after markKeySuccess(index)
C6_SuccessClears ==
  (ret.op = "success" /\ InRange(ret.index)) =>
    /\ KeyAt(ret.index).errorCount = 0
    /\ KeyAt(ret.index).lastError = None
    /\ streak[ret.index + 1] = 0

\* C6: markKeySuccess(index) leaves that credential with errorCount 0 and no
\* lastError, and a credential goes from active to inactive only in a
\* markKeyError step that brings the failures counted since its last success,
\* reset or configuration to 3 or more.
C6_SuccessResetsStreak ==
  /\ []C6_SuccessClears
  /\ [][\A i \in Indices :
          (KeyAt(i).isActive /\ i < Len(API_KEY_STATES') /\ ~API_KEY_STATES'[i + 1].isActive)
            => (ret'.op = "fail" /\ ret'.index = i /\ streak'[i + 1] >= 3)]_vars

\* a success was reported for a credential that had been deactivated by
\* failures: its count is 0 again
C6_Witness ==
  /\ ret.op = "success"
  /\ InRange(ret.index)
  /\ ~KeyAt(ret.index).isActive
  /\ KeyAt(ret.index).errorCount = 0

(* ================================ C7 =================================== *)
\* C7: when every credential of a non-empty pool is inactive, getNextGeminiKey
\* does not throw: it resets the pool exactly once and returns a credential,
\* and afterwards every credential is active with errorCount 0.
C7_ExhaustionAmnesty ==
  [][(ret'.op = "select" /\ PoolSize > 0 /\ ~SomeActive) =>
       /\ ~ret'.threw
       /\ ret'.resets = 1
       /\ ret'.index \in Indices
       /\ Len(API_KEY_STATES') = PoolSize
       /\ \A i \in Indices :
            /\ API_KEY_STATES'[i + 1].isActive
            /\ API_KEY_STATES'[i + 1].errorCount = 0
       /\ (PoolSize = 1 => ret'.index = 0)]_vars

\* the single credential failed 3 times and the next selection returned it,
\* reset
C7_Witness ==
  /\ PoolSize = 1
  /\ ret.op = "select"
  /\ ret.resets = 1
  /\ ret.index = 0
  /\ KeyAt(0).isActive
  /\ KeyAt(0).errorCount = 0
  /\ KeyAt(0).lastError # None

(* ================================ C8 =================================== *)
\* C8: getNextGeminiKey throws exactly when the pool is empty, and the pool is
\* empty exactly when no configuration has succeeded.
C8_ThrowsIffEmpty ==
  /\ ret.op = "select" => (ret.threw <=> PoolSize = 0)
  /\ (ret.op = "select" /\ ~ret.threw) => ret.index \in Indices
  /\ (ret.op = "configure" /\ ~ret.threw) => PoolSize > 0

\* a selection on the never configured pool threw
C8_Witness ==
  /\ ret.op = "select"
  /\ ret.threw
  /\ PoolSize = 0

(* ================================ C9 =================================== *)
NonBlank(s) == \E k \in 1..Len(s) : s[k] \notin Whitespace
\* s without its leading and trailing whitespace, for a non-blank s
Stripped(s) ==
  LET first == CHOOSE k \in 1..Len(s) :
                 s[k] \notin Whitespace /\ \A m \in 1..(k - 1) : s[m] \in Whitespace
      last == CHOOSE k \in 1..Len(s) :
                 s[k] \notin Whitespace /\ \A m \in (k + 1)..Len(s) : s[m] \in Whitespace
  IN  SubSeq(s, first, last)
FreshPool(secrets) ==
  [i \in 1..Len(secrets) |->
     [key |-> secrets[i], usageCount |-> 0, errorCount |-> 0,
      lastError |-> None, lastUsedAt |-> None, isActive |-> TRUE]]
NonBlankInputs == SelectSeq(ret.keys, NonBlank)

\* C9 (as claimed): a configuration with a non-blank input replaces the pool by
\* the non-blank inputs, in order, all fresh, and resets the cursor; one with
\* only blank inputs throws.
C9_PoolIsNonBlankInputs ==
  ret.op = "configure" =>
    IF NonBlankInputs = <<>> THEN ret.threw
    ELSE /\ ~ret.threw
         /\ API_KEY_STATES = FreshPool(NonBlankInputs)
         /\ currentKeyIndex = 0

\* C9 (amended): a configuration with a non-blank input replaces the pool by
\* the non-blank inputs, each without its leading and trailing whitespace, in
\* order, all fresh, and resets the cursor, whatever the pool was before; one
\* with only blank inputs throws.
C9_PoolIsTrimmedInputs ==
  ret.op = "configure" =>
    IF NonBlankInputs = <<>> THEN ret.threw
    ELSE /\ ~ret.threw
         /\ API_KEY_STATES =
              FreshPool([i \in 1..Len(NonBlankInputs) |-> Stripped(NonBlankInputs[i])])
         /\ currentKeyIndex = 0

\* a used pool whose cursor had moved was replaced by a list with a blank
\* entry and a padded key
C9_Witness ==
  /\ ret.op = "configure"
  /\ ~ret.threw
  /\ ret.cursorBefore = 1
  /\ Len(ret.keys) = 3
  /\ PoolSize = 2
  /\ currentKeyIndex = 0

(* ================================ C10 ================================== *)
\* the usageCounts of the pool add up to the selections made
C10_SumIsSelections == SumUsage(PoolSize) = selections

\* C10: between two configurations no usageCount decreases, a selection raises
\* exactly one credential's usageCount, by 1, and the usageCounts of the pool
\* add up to the number of selections since the configuration.
C10_UsageCounts ==
  /\ []C10_SumIsSelections
  /\ [][(ret'.op # "configure" \/ ret'.threw) =>
          /\ Len(API_KEY_STATES') = PoolSize
          /\ \A i \in Indices : API_KEY_STATES'[i + 1].usageCount >= KeyAt(i).usageCount
          /\ SelectStep =>
               \E i \in Indices :
                 /\ API_KEY_STATES'[i + 1].usageCount = KeyAt(i).usageCount + 1
                 /\ \A j \in Indices \ {i} :
                      API_KEY_STATES'[j + 1].usageCount = KeyAt(j).usageCount]_vars

\* a selection that skipped an inactive credential, with the counts adding up
C10_Witness ==
  /\ PoolSize = 2
  /\ ret.op = "select"
  /\ selections = 3
  /\ KeyAt(0).usageCount = 1
  /\ KeyAt(1).usageCount = 2

(* ------------------------ callGeminiAPI: claims ------------------------ *)
Done == invocation.pc = "done"
Returned == Done /\ invocation.result = "text"
Exhausted == Done /\ invocation.result = "exhausted"
Rejected == Done /\ invocation.result = "invalid-input"

\* C11: a call makes at most 3 x poolSize attempts, poolSize read when the
\* call starts; every attempt is one credential selection and at most one
\* outbound request; a call that ends without a success fails with the
\* exhaustion error, whose attempt count is 3 x poolSize.
C11_AttemptBudget ==
  /\ invocation.attemptCount <= 3 * log.poolSizeAtStart
  /\ log.selected = invocation.attemptCount
  /\ log.calls <= invocation.attemptCount
  /\ Exhausted => /\ invocation.reported = 3 * log.poolSizeAtStart
                  /\ invocation.attemptCount = invocation.reported
  /\ (Done /\ ~IsBlankPrompt(invocation.prompt) /\ ~Returned) => Exhausted

C11_Witness ==
  /\ Exhausted
  /\ log.poolSizeAtStart = 2
  /\ invocation.reported = 6
  /\ log.calls = 6

\* C12: every call ends, with the text or with an error, whatever the
\* remote answers, also when every credential fails every time and the
\* pool is fully reset again and again.
C12_CallTerminates == Running ~> Done

C12_Witness ==
  /\ Exhausted
  /\ log.resets >= 2

\* the call began on an untouched pool and met k transient failures, k less
\* than the pool size, and nothing else before its success
FewTransientFailures ==
  /\ log.freshAtStart
  /\ log.onlyTransient
  /\ log.failures < log.poolSizeAtStart

\* C13: a call returns on its first successful attempt: the credential of
\* that attempt is reported successful (errorCount 0, no lastError) and no
\* selection, request or wait follows. From a freshly configured pool of N
\* credentials, k < N transient failures and then a success return after
\* k + 1 attempts, each of the k failed credentials at errorCount 1 and active.
C13_ReturnsOnFirstSuccess ==
  Returned =>
    /\ log.branch = "return"
    /\ ~log.waited
    /\ log.selected = log.failures + 1
    /\ log.calls = log.failures + 1
    /\ KeyAt(invocation.keyIndex).errorCount = 0
    /\ KeyAt(invocation.keyIndex).lastError = None
    /\ FewTransientFailures =>
         /\ invocation.attemptCount = log.failures + 1
         /\ invocation.keyIndex = log.failures
         /\ \A i \in 0..(log.failures - 1) :
              KeyAt(i).errorCount = 1 /\ KeyAt(i).isActive

C13_Witness ==
  /\ Returned
  /\ FewTransientFailures
  /\ log.poolSizeAtStart = 2
  /\ log.failures = 1

\* a call starts in this step
CallStarts == log'.invokes = log.invokes + 1

\* C14: a call with an empty or blank prompt fails at once with the
\* invalid-input error: no credential is selected, no request is sent, and
\* the pool (usageCount, errorCount, isActive, cursor) is left as it was.
C14_BlankPromptRejected ==
  [][(CallStarts /\ trim(invocation'.prompt) = <<>>) =>
       /\ Rejected'
       /\ log'.selected = 0
       /\ log'.calls = 0
       /\ invocation'.attemptCount = 0
       /\ UNCHANGED <<API_KEY_STATES, currentKeyIndex>>]_vars

C14_Witness ==
  /\ Rejected
  /\ invocation.prompt = <<" ">>
  /\ log.invokes = 2
  /\ PoolSize = 2
  /\ KeyAt(0).usageCount > 0
  /\ ~KeyAt(1).isActive

\* the last response was a transient failure
TransientFailure == log.branch \in {"wait-continue", "catch"}

\* C15 as stated: every transient failure records one failure and is followed
\* by one 10 s wait, on the last attempt of the budget as on any other.
C15_EveryTransientFailureWaits ==
  TransientFailure => (log.marks = 1 /\ log.waited)

\* C15: every transient failure records exactly one failure against the
\* credential of its attempt. One reported by the HTTP status or by missing
\* content is followed by exactly one 10 s wait, on the last attempt too; one
\* raised as an exception (transport, unreadable body, content block) is
\* followed by one 10 s wait unless it is the last attempt of the budget,
\* where the call fails with the exhaustion error without waiting.
C15_TransientFailureWaitsUnlessLastException ==
  /\ TransientFailure => log.marks = 1
  /\ log.branch = "wait-continue" => log.waited
  /\ log.branch = "catch" => (log.waited <=> ~Exhausted)
  /\ (log.branch = "catch" /\ Exhausted) =>
       invocation.attemptCount = invocation.maxTotalRetries

C15_Witness ==
  /\ Exhausted
  /\ log.branch = "catch"
  /\ log.marks = 1
  /\ ~log.waited
  /\ log.poolSizeAtStart = 2

RetryAttempt ==
  /\ invocation.pc = "fetch"
  /\ log.previousKeyIndex >= 0
  /\ PoolSize >= 2

C18_OnlyTwoErrorsEscape ==
  /\ invocation.result \in {"none", "text", "invalid-input", "exhausted"}
  /\ Done <=> invocation.result # "none"
  /\ Exhausted => invocation.attemptCount = invocation.maxTotalRetries
  /\ Rejected => invocation.attemptCount = 0 /\ log.failures = 0
  /\ (Running /\ log.failures > 0) => invocation.attemptCount >= log.failures

C18_Witness ==
  /\ Returned
  /\ log.failures >= 2
  /\ ~log.onlyTransient
  /\ log.resets >= 1

(* ----------------------- parseJsonRobust: claims ----------------------- *)
\* strategy n applied to the arguments of the call
StrategyResult(n) == Strategy(n, parse.response, parse.expectedType)

\* the strategies of least number that succeed on the arguments of the call
FirstSuccess ==
  {n \in 1..NumStrategies :
     StrategyResult(n).ok /\ \A m \in 1..(n - 1) : ~StrategyResult(m).ok}

\* C19: the six strategies are tried in the order 1..6 and the result of
\* the first that succeeds is returned, no later strategy being run; so when
\* strategy 1 succeeds on an input the call returns strategy 1's result, and
\* a result is always that of one strategy.
C19_FirstSuccessWins ==
  /\ parse.ran = [k \in 1..Len(parse.ran) |-> k]
  /\ parse.status = "returned" =>
       /\ FirstSuccess = {Len(parse.ran)}
       /\ parse.result = StrategyResult(Len(parse.ran)).value
  /\ (parse.status \in {"returned", "threw"} /\ StrategyResult(1).ok) =>
       /\ parse.status = "returned"
       /\ parse.ran = <<1>>
       /\ parse.result = StrategyResult(1).value

C19_Witness ==
  /\ parse.status = "returned"
  /\ parse.ran = <<1, 2, 3, 4>>
  /\ StrategyResult(5).ok
  /\ ~StrategyResult(6).ok

\* C20: the call fails exactly when all six strategies fail, and its error
\* carries a diagnostic category and the error of strategy 1; when some
\* strategy succeeds no error is raised.
C20_FailsIffAllFail ==
  /\ parse.status = "threw" =>
       /\ FirstSuccess = {}
       /\ parse.summary = errorSummary(parse.response, parse.expectedType)
       /\ parse.summary \in
            {"Response contains markdown code blocks",
             "Response contains control characters",
             "No array bracket found in response",
             "No object bracket found in response",
             "Response contains invalid escape sequences",
             "Malformed JSON structure"}
       /\ parse.firstError =
            [strategy |-> 1, message |-> StrategyResult(1).error]
  /\ parse.status = "returned" => FirstSuccess # {}
  /\ (parse.status = "running" /\ FirstSuccess = {}) =>
       Len(parse.errors) = parse.i

C20_Witness ==
  /\ parse.status = "threw"
  /\ parse.summary = "Response contains invalid escape sequences"
  /\ parse.firstError = [strategy |-> 1, message |-> "SyntaxError"]
  /\ Len(parse.errors) = 6

\* the response of the call holds no opening bracket of the expected type
NoOpeningBracket == ~includes(parse.response, <<openChar(parse.expectedType)>>)
HasFence == includes(parse.response, Fence)
HasControlChar == \E i \in 1..Len(parse.response) : parse.response[i] \in ControlChars

NoBracketSummary ==
  IF parse.expectedType = "array" THEN "No array bracket found in response"
                                  ELSE "No object bracket found in response"

\* C21 as stated: a response with no opening bracket of the expected type
\* fails with the 'no bracket found' category whatever else it contains.
C21_NoBracketCategoryAlways ==
  (parse.status # "idle" /\ NoOpeningBracket) =>
    /\ parse.status # "returned"
    /\ parse.status = "threw" => parse.summary = NoBracketSummary

\* C21: a response with no opening bracket of the expected type fails in
\* every strategy; its category is 'no bracket found' when it holds neither
\* a fence nor a control character, the markdown category when it holds a
\* fence, and the control character category otherwise.
C21_NoBracketCategoryUnlessFenceOrControl ==
  (parse.status # "idle" /\ NoOpeningBracket) =>
    /\ parse.status # "returned"
    /\ \A n \in 1..NumStrategies : ~StrategyResult(n).ok
    /\ parse.status = "threw" =>
         parse.summary =
           IF HasFence THEN "Response contains markdown code blocks"
           ELSE IF HasControlChar THEN "Response contains control characters"
           ELSE NoBracketSummary

C21_Witness ==
  /\ parse.status = "threw"
  /\ NoOpeningBracket
  /\ HasFence
  /\ HasControlChar
  /\ parse.summary = "Response contains markdown code blocks"
  /\ Len(parse.errors) = NumStrategies

\* what the parser gives for the clean payload of a shape
CleanResult(shape) == parseJsonRobust(CleanPayload(shape), expectedTypeOf(shape))

\* the call is over and was given the payload of a shape with a malformation
ParsedMalformed(class, shape) ==
  /\ parse.status \in {"returned", "threw"}
  /\ parse.response = Malformed(class, shape)
  /\ parse.expectedType = expectedTypeOf(shape)

RecoversFrom(class, shape) ==
  ParsedMalformed(class, shape) =>
    /\ parse.status = "returned"
    /\ CleanResult(shape).ok
    /\ parse.result = CleanResult(shape).value

OneRecord(chars) ==
  ArrayValue(<<ObjectValue(<<[StringValue(chars) EXCEPT !.key = <<"a">>]>>)>>)

ParsedAsArray(response) ==
  /\ parse.status \in {"returned", "threw"}
  /\ parse.response = response
  /\ parse.expectedType = "array"

\* C23: the fenced array of one record whose string value holds a newline
\* parses to exactly one record whose field holds the two fragments joined by
\* one space; with the escape sequence of a newline in place of the newline
\* the field holds the newline the escape stands for.
C23_NewlineBecomesSpace ==
  /\ ParsedAsArray(FencedNewline) =>
       /\ parse.status = "returned"
       /\ parse.result = OneRecord(<<"a", " ", "a">>)
  /\ ParsedAsArray(FencedEscape) =>
       /\ parse.status = "returned"
       /\ parse.result = OneRecord(<<"a", LF, "a">>)
  /\ includes(sanitizeJsonString(FencedEscape), <<Backslash, "n">>)

C23_Witness ==
  /\ ParsedAsArray(FencedNewline)
  /\ parse.status = "returned"
  /\ Len(parse.result.kids) = 1
  /\ parse.result.kids[1].kids[1].text = <<"a", " ", "a">>

(* ---------------------------- the driver: claims ----------------------- *)
\* a call is in a unit: in its generate call, its insert or update, or the
\* delay after them
InUnit(run) == run.pc \in {"generate", "store", "delay"}

\* a step in which call r leaves the unit it is in
LeavesUnit(r) ==
  /\ InUnit(runs[r])
  /\ ~InUnit(runs'[r]) \/ runs'[r].visited # runs[r].visited

\* a step in which call r begins a unit
BeginsUnit(r) == runs'[r].visited = runs[r].visited + 1

\* a step in which call r runs the cycle of its unit once more
RetriesUnit(r) ==
  /\ runs'[r].visited = runs[r].visited
  /\ runs'[r].attempts = runs[r].attempts + 1

\* a unit is left persisted or after maxAttempts cycles, never more, and no
\* cycle follows the one that persisted
RetriedToCeiling(r) ==
  /\ runs'[r].attempts <= maxAttempts
  /\ LeavesUnit(r) =>
       runs[r].validQuestionGenerated \/ runs[r].attempts = maxAttempts
  /\ RetriesUnit(r) => ~runs[r].validQuestionGenerated

\* C24 as stated: in either mode a failed cycle is retried, a unit has at
\* most 5 cycles, the retries stop at the first persisted result, and the
\* unit is given up after the fifth failed cycle.
C24_FailedCycleRetriedInEitherMode ==
  [][\A r \in Runs : RetriedToCeiling(r)]_vars

\* C24: a question to generate is retried as stated; a record needing a
\* solution has one cycle, and is left after it whether it failed or not.
C24_FailedCycleRetriedForQuestions ==
  [][\A r \in Runs :
       /\ runs[r].mode = "new_questions" => RetriedToCeiling(r)
       /\ runs[r].mode = "pyq_solutions" =>
            /\ runs'[r].attempts <= 1
            /\ ~RetriesUnit(r)
            /\ (runs[r].pc = "delay" /\ runs'[r].pc # "delay") => LeavesUnit(r)]_vars

C24_Witness ==
  \E r \in Runs :
    /\ runs[r].mode = "new_questions"
    /\ runs[r].pc = "delay"
    /\ runs[r].attempts = maxAttempts
    /\ ~runs[r].validQuestionGenerated
    /\ runs[r].visited = 1

C26_NoUnitBeginsAfterStop ==
  [][\A r \in Runs : BeginsUnit(r) => ~runs[r].stopRequested]_vars

(* ================================ C27 ================================== *)
\* the loops that are running, and those awaiting their generate call
RunningLoops == {r \in Runs : Active(runs[r])}
InvokesInFlight == {r \in Runs : InvokeInFlight(runs[r])}

\* C27: in every reachable state at most one driver loop is running and at
\* most one invoke is in flight.
C27_OneLoopOneInvoke ==
  /\ Cardinality(RunningLoops) <= 1
  /\ Cardinality(InvokesInFlight) <= 1

(* ================================ C28 ================================== *)
\* a step in which the insert of call r's questionToSave settles without error
PersistsQuestion(r) ==
  /\ runs[r].pc = "store"
  /\ runs[r].pending.kind = "question"
  /\ runs'[r].validQuestionGenerated

\* the record has a statement, a type and an answer, and 4 options when it is
\* of a multiple-choice type
SemanticallyValid(saved) ==
  /\ saved.statement # <<>>
  /\ saved.questionType \in QuestionTypes
  /\ saved.answer # <<>>
  /\ saved.questionType \in MultipleChoice => saved.options = 4

\* C28: every question the driver persists has a non-empty statement, a type
\* and an answer, and 4 options when persisted with type MCQ or MSQ, whatever
\* the response declared.
C28_PersistedQuestionIsValid ==
  [][\A r \in Runs : PersistsQuestion(r) => SemanticallyValid(runs[r].pending)]_vars

(* ================================ C29 ================================== *)
\* the units of a plan: the questions to generate of its topics, or the
\* records needing a solution
RECURSIVE PlannedUnits(_)
PlannedUnits(plan) ==
  IF plan = <<>> THEN 0 ELSE Head(plan) + PlannedUnits(Tail(plan))

StatsCall == ret'.op = "stats" /\ ret' # ret

\* C30: getApiKeyStats changes no credential field and not the cursor, and
\* returns one entry per credential in pool order, with index = position + 1
\* and the credential's current usageCount, errorCount, lastError and isActive.
C30_StatsIsReadOnlySnapshot ==
  [][StatsCall =>
       /\ API_KEY_STATES' = API_KEY_STATES
       /\ currentKeyIndex' = currentKeyIndex
       /\ Len(ret'.stats) = PoolSize
       /\ \A i \in Indices :
            LET entry == ret'.stats[i + 1]
            IN  /\ entry.index = i + 1
                /\ entry.usageCount = KeyAt(i).usageCount
                /\ entry.errorCount = KeyAt(i).errorCount
                /\ entry.lastError = KeyAt(i).lastError
                /\ entry.isActive = KeyAt(i).isActive]_vars

\* the snapshot of a 2-credential pool, one used and one deactivated
C30_Witness ==
  /\ ret.op = "stats"
  /\ Len(ret.stats) = 2
  /\ ret.stats[1].usageCount > 0
  /\ ~ret.stats[2].isActive
  /\ ret.stats[2].lastError # None
  /\ ret.stats[2].index = 2

(* ================================ C31 ================================== *)
\* the selections of credential i by the call, in flight or ended
TriedInCall(i) == KeyAt(i).usageCount - log.usageAtStart[i + 1]
\* a call has begun on the pool as it is configured now
InCall == log.invokes > 0 /\ Len(log.usageAtStart) = PoolSize

RECURSIVE SumTried(_)
SumTried(n) == IF n = 0 THEN 0 ELSE TriedInCall(n - 1) + SumTried(n - 1)

C32_InactiveOnlyAfterThreeErrors ==
  \A i \in Indices : ~KeyAt(i).isActive => KeyAt(i).errorCount >= 3

(* ================================ C33 ================================== *)
\* a setGeminiApiKeys call that threw
FailedConfigure == ret.op = "configure" /\ ret.threw

\* C33: a setGeminiApiKeys call that throws (no input, or only blank ones)
\* leaves the pool and the cursor as they were, and the selection that
\* follows it continues the rotation from the cursor held before the call.
C33_FailedConfigureKeepsPool ==
  /\ [][FailedConfigure' =>
          /\ API_KEY_STATES' = API_KEY_STATES
          /\ currentKeyIndex' = currentKeyIndex]_vars
  /\ [][(FailedConfigure /\ SelectCall /\ SomeActive) =>
          /\ ret'.index = FirstActiveFrom(ret.cursorBefore)
          /\ ret'.key = KeyAt(ret'.index).key]_vars

\* a used pool of two whose cursor had moved, after a call with blank keys
C33_Witness ==
  /\ FailedConfigure
  /\ ret.keys # <<>>
  /\ ret.cursorBefore = 1
  /\ PoolSize = 2
  /\ currentKeyIndex = 1
  /\ KeyAt(0).usageCount = 1
  /\ KeyAt(0).errorCount > 0

(* ================================ C34 ================================== *)
\* a getNextGeminiKey call that went through the full reset
ResetCall == SelectCall /\ ret'.resets > 0

\* C34: the full reset changes only isActive and errorCount. The call that
\* resets leaves every credential's key, usageCount, lastError and lastUsedAt
\* as they were, but for the usage tracking of the credential it returns, and
\* it returns the credential at the cursor position held before the reset.
C34_ResetKeepsUsageAndCursor ==
  [][ResetCall =>
       /\ ret'.index = currentKeyIndex
       /\ currentKeyIndex' = (currentKeyIndex + 1) % PoolSize
       /\ Len(API_KEY_STATES') = PoolSize
       /\ \A i \in Indices :
            /\ API_KEY_STATES'[i + 1].key = KeyAt(i).key
            /\ API_KEY_STATES'[i + 1].lastError = KeyAt(i).lastError
            /\ API_KEY_STATES'[i + 1].usageCount =
                 KeyAt(i).usageCount + (IF i = currentKeyIndex THEN 1 ELSE 0)
            /\ i # currentKeyIndex =>
                 API_KEY_STATES'[i + 1].lastUsedAt = KeyAt(i).lastUsedAt]_vars

\* after the reset of a pool of two the second credential was returned, the
\* cursor being on it; the first keeps its error and its one use
C34_Witness ==
  /\ ret.op = "select"
  /\ ret.resets = 1
  /\ PoolSize = 2
  /\ ret.cursorBefore = 1
  /\ ret.index = 1
  /\ KeyAt(0).lastError # None
  /\ KeyAt(0).usageCount = 1
  /\ KeyAt(0).errorCount = 0
  /\ KeyAt(1).usageCount = 1

(* ================================ C35 ================================== *)
\* C35: every attempt of a call reports one outcome for the credential it
\* selected: a response that is returned is reported by markKeySuccess and by
\* no markKeyError, any other response by exactly one markKeyError.
C35_OneOutcomePerAttempt ==
  log.branch # "none" =>
    log.marks = (IF log.branch = "return" THEN 0 ELSE 1)

(* ================================ C36 ================================== *)
\* C36: a call that began on a freshly configured pool and failed in every
\* attempt ends with every credential at usageCount 3, errorCount 3 and
\* inactive, and without a full reset of the pool during the call.
C36_AllFailedLeavesAllInactive ==
  (Exhausted /\ log.freshAtStart) =>
    /\ log.resets = 0
    /\ \A i \in Indices :
         /\ KeyAt(i).usageCount = 3
         /\ KeyAt(i).errorCount = 3
         /\ ~KeyAt(i).isActive

(* ================================ C37 ================================== *)
\* C37: a call with a non-blank prompt on the never-configured, empty pool
\* fails at once with the exhaustion error, which reports 0 attempts, and not
\* with the no-keys error of getNextGeminiKey: no credential is selected and
\* no request is sent.
C37_EmptyPoolFailsAsExhausted ==
  [][(CallStarts /\ PoolSize = 0 /\ trim(invocation'.prompt) # <<>>) =>
       /\ Exhausted'
       /\ invocation'.reported = 0
       /\ invocation'.attemptCount = 0
       /\ log'.selected = 0
       /\ log'.calls = 0
       /\ UNCHANGED <<API_KEY_STATES, currentKeyIndex>>]_vars

\* the first call, made before any configuration, has ended that way
C37_Witness ==
  /\ PoolSize = 0
  /\ Exhausted
  /\ invocation.prompt = <<"p">>
  /\ invocation.maxTotalRetries = 0
  /\ invocation.reported = 0
  /\ log.invokes = 1
  /\ log.calls = 0

(* ================================ C38 ================================== *)
\* C38: the questionsToGenerate of the topics add up to the
\* totalQuestionsToGenerate the calculation returns, the requested total plus
\* the extra questions, so the questions generated never exceed the target of
\* the progress state.
C38_TargetIsScheduledWork ==
  calculation.started =>
    /\ SumSeq(calculation.questionsToGenerate) = calculation.totalQuestionsTarget
    /\ calculation.totalQuestionsGenerated <= calculation.totalQuestionsTarget


(* ------------------- C39: the balanced-bracket scan -------------------- *)
\* the brackets c at the positions start..i (from 0) of the response
BracketsSeen(response, c, start, i) ==
  Cardinality({j \in start..i : response[j + 1] = c})

\* the first position from start at which as many closing as opening brackets
\* of the expected type have been seen since start, -1 when there is none
FirstBalanced(response, expectedType, start) ==
  LET balanced ==
        {i \in start..(Len(response) - 1) :
           BracketsSeen(response, openChar(expectedType), start, i)
             = BracketsSeen(response, closeChar(expectedType), start, i)}
  IN  IF balanced = {} THEN -1
      ELSE CHOOSE i \in balanced : \A j \in balanced : i <= j

\* the position at which the JSON value that opens at start is closed: the
\* first position up to which the text from start is a JSON text, -1 when
\* no value opens there
PayloadClose(response, start) ==
  LET closes ==
        {i \in start..(Len(response) - 1) :
           JSONparse(SubSeq(response, start + 1, i + 1)).ok}
  IN  IF closes = {} THEN -1
      ELSE CHOOSE i \in closes : \A j \in closes : i <= j

\* an array or an object is among the elements of the value
IsNested(value) ==
  \E k \in 1..Len(value.kids) : value.kids[k].tag \in {"array", "object"}

\* a string or a key of the value holds the character c
RECURSIVE StringHolds(_, _)
StringHolds(value, c) ==
  \/ \E k \in 1..Len(value.text) : value.tag = "string" /\ value.text[k] = c
  \/ \E k \in 1..Len(value.key) : value.key[k] = c
  \/ \E k \in 1..Len(value.kids) : StringHolds(value.kids[k], c)

ScanStart == indexOf(parse.response, openChar(parse.expectedType))
ScanEnd == FirstBalanced(parse.response, parse.expectedType, ScanStart)
ScanPayloadClose == PayloadClose(parse.response, ScanStart)
ScanPayload ==
  JSONparse(SubSeq(parse.response, ScanStart + 1, ScanPayloadClose + 1)).value

\* the response holds a nested payload of the expected type from its first
\* opening bracket, and text after it
NestedPayloadThenText ==
  /\ ScanStart # -1
  /\ ScanPayloadClose # -1
  /\ ScanPayloadClose < Len(parse.response) - 1
  /\ ScanPayload.tag = parse.expectedType
  /\ IsNested(ScanPayload)

\* strategy 6 works on the span from the first opening bracket to the first
\* balanced position, and throws when there is no such position
ScanSelectsFirstBalancedSpan ==
  parse.status # "idle" =>
    StrategyResult(6) =
      (IF ScanStart = -1 THEN Failed("No opening bracket found")
       ELSE IF ScanEnd = -1 THEN Failed("No matching closing bracket found")
       ELSE ParseOrThrow(sanitizeJsonString(
              SubSeq(parse.response, ScanStart + 1, ScanEnd + 1))))

\* C39 as stated: strategy 6 selects the span from the first opening bracket
\* of the expected type to the first position at which as many closing as
\* opening brackets of that type have been seen, fails with 'No matching
\* closing bracket found' without one, and for every nested payload followed
\* by text that position is the close of the payload.
C39_ScanFindsTrueClose ==
  /\ ScanSelectsFirstBalancedSpan
  /\ (parse.status # "idle" /\ NestedPayloadThenText) =>
       ScanEnd = ScanPayloadClose

\* C39 amended: the same, the position being the close of the payload for
\* every nested payload followed by text none of whose strings holds a
\* bracket of the expected type.
C39_ScanFindsTrueCloseOutsideStrings ==
  /\ ScanSelectsFirstBalancedSpan
  /\ (/\ parse.status # "idle"
      /\ NestedPayloadThenText
      /\ ~StringHolds(ScanPayload, openChar(parse.expectedType))
      /\ ~StringHolds(ScanPayload, closeChar(parse.expectedType))) =>
       ScanEnd = ScanPayloadClose

\* the sixth strategy is the one that returns, on a nested payload whose
\* close is not the last closing bracket of the text
C39_Witness ==
  /\ parse.status = "returned"
  /\ parse.ran = <<1, 2, 3, 4, 5, 6>>
  /\ NestedPayloadThenText
  /\ ScanEnd = ScanPayloadClose
  /\ ScanEnd < lastIndexOf(parse.response, closeChar(parse.expectedType))
  /\ parse.result = ScanPayload

============================================================================
